---------------------------- MODULE Spec2Model ----------------------------
(***************************************************************************)
(* A model of banzai, a bzip2 encoder: the bit sink (out.rs), first-stage  *)
(* run-length encoding (rle.rs), the Burrows-Wheeler transform by SA-IS    *)
(* (bwt.rs), move-to-front with zero-run coding (mtf.rs), Huffman coding   *)
(* (huffman.rs) and the stream framer (lib.rs).                            *)
(*                                                                         *)
(* Bytes are integers 0..255; a u32 is the tuple of its four big-endian    *)
(* bytes (u32::to_be_bytes), since it does not fit the checker's integers; *)
(* vectors are sequences (index 1 is Rust's index 0).  Bit strings are     *)
(* sequences over {0, 1}, most significant bit first.                      *)
(***************************************************************************)
EXTENDS Integers, Sequences, FiniteSets, TLC

VARIABLES
    overflow_checks, \* build profile: arithmetic overflow panics (debug) or wraps (release)
    output,          \* OutputStream { writer, strand, strand_bits } and whether a call panicked
    calls,           \* history: the calls made on the OutputStream so far
    closed,          \* OutputStream::close has been called
    input,           \* the bytes the reader was created over
    level,           \* the level argument
    reader,          \* the reader: the bytes not yet consumed, and its chunk size
    raw,             \* encode's `raw`: bytes read but not yet encoded
    rle,             \* the locals of the running rle_one call
    blocks,          \* what the calls made so far returned
    enc,             \* the locals of encode: stream_crc, consumed, the block in hand
    pc               \* where the caller stands

(***************************************************************************)
(* Bounds of the model.                                                    *)
(***************************************************************************)
\* number of OutputStream calls before close
MaxCalls == 2

\* The block size is 100_000 * level bytes in the code (rle.rs, max_len): the
\* model counts it in units of BlockUnit bytes, so that short inputs fill
\* blocks.  At least 3, as the first iteration of rle_one needs bound >= 2.
BlockUnit == 3

\* The most extra repeats one run group counts, 251 in the code (rle.rs,
\* while rep_count < 251): scaled so that short runs span several groups.
MaxRep == 2

\* inputs: every byte string over Alphabet of at most MaxLen bytes, and
\* every string of two runs of at most MaxRun bytes each
MaxLen == 5

MaxRun == 11

\* The width of the segments that share a coding table, 50 in the code
\* (huffman.rs, SEGMENT_WIDTH and the literal 50 of the last loop): scaled
\* so that the short blocks of the model have several segments.
SegmentWidth == 4

\* frequency vectors: every vector of 3..MaxSyms frequencies out of
\* FreqSamples, and the vectors 1, 2, 4, .. of 3..MaxSkew frequencies, whose
\* coding trees are chains
MaxSyms == 5

MaxSkew == 21

(***************************************************************************)
(* Machine arithmetic.                                                     *)
(***************************************************************************)
\* the vector with the elements of f, a function on 1..n
Vec(f) == SubSeq(f, 1, Len(f))

Pow2(n) == 2 ^ n

Min(a, b) == IF a < b THEN a ELSE b

Max(a, b) == IF a > b THEN a ELSE b

RECURSIVE BitOr(_, _)
BitOr(a, b) ==
    IF a = 0 THEN b
    ELSE IF b = 0 THEN a
    ELSE Max(a % 2, b % 2) + 2 * BitOr(a \div 2, b \div 2)

RECURSIVE BitXor(_, _)
BitXor(a, b) ==
    IF a = 0 THEN b
    ELSE IF b = 0 THEN a
    ELSE ((a + b) % 2) + 2 * BitXor(a \div 2, b \div 2)

\* u8 << s and u8 >> s for 0 <= s < 8
Shl8(x, s) == (x * Pow2(s)) % 256

Shr8(x, s) == x \div Pow2(s)

\* the u32 of a number below 2^31
U32(x) ==
    << (x \div 16777216) % 256, (x \div 65536) % 256, (x \div 256) % 256, x % 256 >>

\* u16::to_be_bytes
ToBeBytes16(x) == << (x \div 256) % 256, x % 256 >>

(***************************************************************************)
(* out.rs: OutputStream.  The sink (io::BufWriter) is the sequence of      *)
(* bytes written to it; `panicked` records that a call aborted.            *)
(***************************************************************************)
OutputStreamNew ==
    [writer |-> << >>, strand |-> 0, strand_bits |-> 0, panicked |-> FALSE]

\* chunk << shift on a u8 where shift may reach 8: a panic under overflow
\* checks, otherwise the shift amount is masked to three bits.
ShlChecked(chunk, shift) ==
    IF shift < 8 THEN [panic |-> FALSE, val |-> Shl8(chunk, shift)]
    ELSE IF overflow_checks THEN [panic |-> TRUE, val |-> 0]
    ELSE [panic |-> FALSE, val |-> Shl8(chunk, shift % 8)]

write_bits(os, chunk, num_bits) ==
    LET rptr == os.strand_bits + num_bits
    IN  IF os.panicked THEN os
        ELSE IF rptr < 8 THEN
            LET sh == ShlChecked(chunk, 8 - rptr)
            IN  IF sh.panic THEN [os EXCEPT !.panicked = TRUE]
                ELSE [os EXCEPT !.strand = BitOr(os.strand, sh.val),
                                !.strand_bits = rptr]
        ELSE IF rptr = 8 THEN
            [os EXCEPT !.writer = Append(os.writer, BitOr(os.strand, chunk)),
                       !.strand = 0,
                       !.strand_bits = 0]
        ELSE
            LET spill == rptr - 8
                s_chunk == Shr8(chunk, spill)
            IN  [os EXCEPT !.writer = Append(os.writer, BitOr(os.strand, s_chunk)),
                           !.strand = Shl8(chunk, 8 - spill),
                           !.strand_bits = spill]

write_byte(os, byte) == write_bits(os, byte, 8)

RECURSIVE write_full_bytes(_, _, _)
write_full_bytes(os, bytes, bptr) ==
    IF bptr < 4
    THEN write_full_bytes(write_byte(os, bytes[bptr + 1]), bytes, bptr + 1)
    ELSE os

\* bptr = 3 - num_full_bytes is computed in usize: with num_bits = 32 it goes
\* below zero, which panics under overflow checks and otherwise wraps to
\* usize::MAX (written -1 here), the following bptr += 1 wrapping back to 0.
write_bits_u32(os, chunk, num_bits) ==
    LET bytes == chunk
        num_full_bytes == num_bits \div 8
        num_rem_bits == num_bits % 8
        bptr == 3 - num_full_bytes
    IN  IF os.panicked THEN os
        ELSE IF bptr < 0 /\ overflow_checks THEN [os EXCEPT !.panicked = TRUE]
        ELSE IF num_rem_bits # 0 /\ bptr < 0 THEN [os EXCEPT !.panicked = TRUE]
        ELSE LET os1 == IF num_rem_bits # 0
                        THEN write_bits(os, bytes[bptr + 1], num_rem_bits)
                        ELSE os
             IN  write_full_bytes(os1, bytes, bptr + 1)

RECURSIVE merge_bytes(_, _, _, _, _)
merge_bytes(bytes, k, rshift, strand, buf) ==
    IF k > Len(bytes) THEN [buf |-> buf, strand |-> strand]
    ELSE merge_bytes(bytes, k + 1, rshift, Shl8(bytes[k], 8 - rshift),
                     Append(buf, BitOr(Shr8(bytes[k], rshift), strand)))

\* io::BufWriter::write takes a slice shorter than its capacity whole; every
\* slice the encoder passes is a few bytes long.
write_bytes(os, bytes) ==
    IF os.panicked THEN os
    ELSE IF os.strand_bits = 0 THEN [os EXCEPT !.writer = os.writer \o bytes]
    ELSE LET m == merge_bytes(bytes, 1, os.strand_bits, os.strand, << >>)
         IN  [os EXCEPT !.writer = os.writer \o m.buf, !.strand = m.strand]

close(os) ==
    IF os.panicked THEN os
    ELSE IF os.strand_bits # 0 THEN [os EXCEPT !.writer = Append(os.writer, os.strand)]
    ELSE os

(***************************************************************************)
(* crc32.rs is not among the sources: checksum is the bzip2 CRC the        *)
(* specification describes (polynomial 0x04C11DB7, initial value           *)
(* 0xFFFFFFFF, most significant bit first, final complement).              *)
(***************************************************************************)
Xor32(x, y) == << BitXor(x[1], y[1]), BitXor(x[2], y[2]), BitXor(x[3], y[3]), BitXor(x[4], y[4]) >>

\* x << 1 on a u32
Shl32One(x) ==
    << ((x[1] * 2) % 256) + (x[2] \div 128), ((x[2] * 2) % 256) + (x[3] \div 128),
       ((x[3] * 2) % 256) + (x[4] \div 128), (x[4] * 2) % 256 >>

CrcPoly == << 4, 193, 29, 183 >>

RECURSIVE crc_shift(_, _)
crc_shift(c, k) ==
    IF k = 0 THEN c
    ELSE crc_shift(IF c[1] >= 128 THEN Xor32(Shl32One(c), CrcPoly) ELSE Shl32One(c), k - 1)

crc_table == [t \in 0..255 |-> crc_shift(<< t, 0, 0, 0 >>, 8)]

RECURSIVE crc_update(_, _, _)
crc_update(crc, buf, k) ==
    IF k > Len(buf) THEN crc
    ELSE crc_update(Xor32(<< crc[2], crc[3], crc[4], 0 >>, crc_table[BitXor(crc[1], buf[k])]),
                    buf, k + 1)

checksum(buf) ==
    Xor32(crc_update(<< 255, 255, 255, 255 >>, buf, 1), << 255, 255, 255, 255 >>)

(***************************************************************************)
(* rle.rs: the reader, BoundedBuffer, InputStream and rle_one.             *)
(*                                                                         *)
(* A reader (io::BufRead) is the bytes it has yet to yield and the size of *)
(* its buffer: fill_buf returns at most `cap` bytes, none at end of input. *)
(* `errs_after` is the number of reads that still succeed before fill_buf  *)
(* returns Err (NoErr: it never does); `unwrap_err` says that the unwrap   *)
(* of such a result panicked.                                              *)
(* The loop of rle_one is a record of its locals; `brk` says the loop was  *)
(* left, `overrun` that BoundedBuffer::push ran with bound = 0, `oob` that *)
(* raw was indexed outside its length.                                     *)
(***************************************************************************)
\* the look-ahead margin_call keeps in `raw`: 256 = 251 + 5 in the code
Margin == MaxRep + 5

\* a reader whose fill_buf never returns Err
NoErr == -1

\* fill_buf returns Err(e)
fill_err(rd) == rd.errs_after = 0

\* the slice of an Ok result
fill_buf(rd) == SubSeq(rd.data, 1, Min(rd.cap, Len(rd.data)))

consume(rd, l) ==
    [rd EXCEPT !.data = SubSeq(@, l + 1, Len(@)),
               !.errs_after = IF @ > 0 THEN @ - 1 ELSE @]

push(st, byte) ==
    [st EXCEPT !.buffer = Append(@, byte),
               !.bound = @ - 1,
               !.overrun = @ \/ st.bound <= 0]

\* InputStream::init: the state after the first read
stream_init(rd, rw) ==
    LET buf == fill_buf(rd)
    IN  IF fill_err(rd)
        THEN [reader |-> rd, raw |-> rw, seen_eof |-> FALSE, unwrap_err |-> TRUE]
        ELSE IF buf = << >>
        THEN [reader |-> rd, raw |-> rw, seen_eof |-> TRUE, unwrap_err |-> FALSE]
        ELSE [reader |-> consume(rd, Len(buf)), raw |-> rw \o buf, seen_eof |-> FALSE,
              unwrap_err |-> FALSE]

\* the refill with one read in place of the loop
margin_fill_one_read(st) ==
    IF st.n < st.i + Margin
    THEN LET buf == fill_buf(st.reader)
         IN  IF fill_err(st.reader) THEN [st EXCEPT !.unwrap_err = TRUE]
             ELSE IF buf = << >> THEN [st EXCEPT !.seen_eof = TRUE]
             ELSE [st EXCEPT !.raw = @ \o buf,
                             !.reader = consume(@, Len(buf)),
                             !.n = @ + Len(buf)]
    ELSE st

RECURSIVE margin_fill(_)
margin_fill(st) ==
    IF st.n < st.i + Margin
    THEN LET buf == fill_buf(st.reader)
         IN  IF fill_err(st.reader) THEN [st EXCEPT !.unwrap_err = TRUE]
             ELSE IF buf = << >> THEN [st EXCEPT !.seen_eof = TRUE]
             ELSE margin_fill([st EXCEPT !.raw = @ \o buf,
                                         !.reader = consume(@, Len(buf)),
                                         !.n = @ + Len(buf)])
    ELSE st

\* InputStream::margin_call: the state after the refill, and the margin returned
margin_call(st) ==
    LET d == st.n - st.i
    IN  IF d < Margin
        THEN IF st.seen_eof THEN [st |-> st, margin |-> d]
             ELSE LET st1 == margin_fill(st) IN [st |-> st1, margin |-> st1.n - st1.i]
        ELSE [st |-> st, margin |-> Margin]

\* raw[k], Rust's index
At(rw, k) == rw[k + 1]

\* count_reps with the loop bound off by one (rep_count <= 251): a variant
\* the comparison with the reference encoding must reject
RECURSIVE count_reps_one_more(_, _, _, _)
count_reps_one_more(rw, b, i, rep_count) ==
    IF rep_count <= MaxRep /\ i < Len(rw) /\ At(rw, i) = b
    THEN count_reps_one_more(rw, b, i + 1, rep_count + 1)
    ELSE [i |-> i, rep_count |-> rep_count]

\* while rep_count < 251: the repeats of b counted from raw[i] on
RECURSIVE count_reps(_, _, _, _)
count_reps(rw, b, i, rep_count) ==
    IF rep_count < MaxRep /\ i < Len(rw) /\ At(rw, i) = b
    THEN count_reps(rw, b, i + 1, rep_count + 1)
    ELSE [i |-> i, rep_count |-> rep_count]

\* the run group's count byte, after the four copies of b were pushed and i
\* was moved past them
encode_run(st) ==
    LET r == count_reps(st.raw, st.b, st.i, 0)
        st1 == [push(st, r.rep_count) EXCEPT !.i = r.i, !.floor = r.i]
    IN  IF r.i >= st1.n THEN [st1 EXCEPT !.brk = TRUE]
        ELSE [st1 EXCEPT !.b = At(st1.raw, r.i)]

\* run_back without its test of the bound: a variant the bound invariant
\* must reject
run_back_unchecked(st, hop) == encode_run([push(st, hop) EXCEPT !.i = @ + 3])

\* run_back that still writes the fourth copy when one place is left
run_back_fourth_copy(st, hop) ==
    IF st.bound = 0 THEN [st EXCEPT !.i = @ + 2, !.brk = TRUE]
    ELSE IF st.bound = 1 THEN [push(st, hop) EXCEPT !.i = @ + 3, !.brk = TRUE]
    ELSE encode_run([push(st, hop) EXCEPT !.i = @ + 3])

\* [i-1, i, i+1, i+2] is a run
run_back(st, hop) ==
    IF st.bound < 2 THEN [st EXCEPT !.i = @ + 2, !.brk = TRUE]
    ELSE encode_run([push(st, hop) EXCEPT !.i = @ + 3])

\* [i, i+1, i+2, i+3] is a run
run_fwd(st, hop, step) ==
    IF st.bound = 0 THEN [st EXCEPT !.i = @ + 2, !.brk = TRUE]
    ELSE LET st1 == push(st, hop)
         IN  IF st1.bound < 2 THEN [st1 EXCEPT !.i = @ + 3, !.brk = TRUE]
             ELSE encode_run([push(st1, step) EXCEPT !.i = @ + 4])

no_run(st, hop) == [st EXCEPT !.i = @ + 2, !.b = hop]

\* the body of the loop after margin_call returned 3 or more
rle_hop(st) ==
    IF st.i + 2 >= Len(st.raw) THEN [st EXCEPT !.oob = TRUE, !.brk = TRUE]
    ELSE
    LET hop == At(st.raw, st.i + 2)
        nxt == At(st.raw, st.i + 1)
        st1 == push(st, nxt)
    IN  IF st.b = hop /\ st.b = nxt
        THEN IF st.i > st.floor /\ st.b = At(st.raw, st.i - 1)
             THEN run_back(st1, hop)
             ELSE IF st.i + 3 < st.n /\ st.b = At(st.raw, st.i + 3)
                  THEN run_fwd(st1, hop, At(st.raw, st.i + 3))
                  ELSE no_run(st1, hop)
        ELSE no_run(st1, hop)

\* one iteration of the loop of rle_one
rle_iter(st) ==
    IF st.bound = 0 THEN [st EXCEPT !.brk = TRUE]
    ELSE IF st.bound = 1 THEN [push(st, st.b) EXCEPT !.i = @ + 1, !.brk = TRUE]
    ELSE LET m == margin_call(push(st, st.b))
             st1 == m.st
         IN  IF st1.unwrap_err THEN [st1 EXCEPT !.brk = TRUE]
             ELSE IF m.margin = 0 THEN [st1 EXCEPT !.oob = TRUE, !.brk = TRUE]
             ELSE IF m.margin = 1 THEN [st1 EXCEPT !.i = @ + 1, !.brk = TRUE]
             ELSE IF m.margin = 2
                  THEN [push(st1, At(st1.raw, st1.i + 1)) EXCEPT !.i = @ + 2, !.brk = TRUE]
             ELSE rle_hop(st1)

\* the locals of rle_one when the loop is entered (n > 0)
rle_enter(rd, rw, lv) ==
    LET s == stream_init(rd, rw)
    IN  [reader |-> s.reader, raw |-> s.raw, seen_eof |-> s.seen_eof,
         n |-> Len(s.raw), max_len |-> BlockUnit * lv - 1,
         buffer |-> << >>, bound |-> BlockUnit * lv - 1,
         floor |-> 0, i |-> 0,
         b |-> IF s.raw = << >> THEN 0 ELSE At(s.raw, 0),
         brk |-> s.unwrap_err, overrun |-> FALSE, oob |-> FALSE,
         unwrap_err |-> s.unwrap_err]

RECURSIVE rle_loop(_)
rle_loop(st) == IF st.brk THEN st ELSE rle_loop(rle_iter(st))

\* Option<Vec<u8>>
None == [some |-> FALSE, vec |-> << >>]

Some(v) == [some |-> TRUE, vec |-> v]

\* struct Rle with `consumed` the number of bytes put in the block
rle_result_counts_output(st) ==
    IF st.n = 0
    THEN [output |-> << >>, chk |-> U32(0), raw |-> None, consumed |-> 0,
          reader |-> st.reader, overrun |-> FALSE, oob |-> FALSE,
          unwrap_err |-> st.unwrap_err]
    ELSE [output |-> st.buffer,
          chk |-> checksum(SubSeq(st.raw, 1, Min(st.i, Len(st.raw)))),
          raw |-> IF st.i < st.n THEN Some(SubSeq(st.raw, st.i + 1, Len(st.raw))) ELSE None,
          consumed |-> Len(st.buffer),
          reader |-> st.reader, overrun |-> st.overrun,
          oob |-> st.oob \/ st.i > Len(st.raw), unwrap_err |-> st.unwrap_err]

\* struct Rle with Some(empty) for the remainder when nothing is left over
rle_result_empty_remainder(st) ==
    IF st.n = 0
    THEN [output |-> << >>, chk |-> U32(0), raw |-> None, consumed |-> 0,
          reader |-> st.reader, overrun |-> FALSE, oob |-> FALSE,
          unwrap_err |-> st.unwrap_err]
    ELSE [output |-> st.buffer,
          chk |-> checksum(SubSeq(st.raw, 1, Min(st.i, Len(st.raw)))),
          raw |-> Some(SubSeq(st.raw, st.i + 1, Len(st.raw))),
          consumed |-> st.i,
          reader |-> st.reader, overrun |-> st.overrun,
          oob |-> st.oob \/ st.i > Len(st.raw), unwrap_err |-> st.unwrap_err]

\* struct Rle with the checksum taken over the block's RLE1 output
rle_result_chk_of_output(st) ==
    IF st.n = 0
    THEN [output |-> << >>, chk |-> U32(0), raw |-> None, consumed |-> 0,
          reader |-> st.reader, overrun |-> FALSE, oob |-> FALSE,
          unwrap_err |-> st.unwrap_err]
    ELSE [output |-> st.buffer,
          chk |-> checksum(st.buffer),
          raw |-> IF st.i < st.n THEN Some(SubSeq(st.raw, st.i + 1, Len(st.raw))) ELSE None,
          consumed |-> st.i,
          reader |-> st.reader, overrun |-> st.overrun,
          oob |-> st.oob \/ st.i > Len(st.raw), unwrap_err |-> st.unwrap_err]

\* struct Rle of a call that reports nothing consumed and hands back nothing
rle_result_nothing_consumed(st) ==
    [output |-> << >>, chk |-> U32(0), raw |-> None, consumed |-> 0,
     reader |-> st.reader, overrun |-> FALSE, oob |-> FALSE,
     unwrap_err |-> st.unwrap_err]

\* struct Rle, with the reader as the call leaves it
rle_result(st) ==
    IF st.n = 0
    THEN [output |-> << >>, chk |-> U32(0), raw |-> None, consumed |-> 0,
          reader |-> st.reader, overrun |-> FALSE, oob |-> FALSE,
          unwrap_err |-> st.unwrap_err]
    ELSE [output |-> st.buffer,
          chk |-> checksum(SubSeq(st.raw, 1, Min(st.i, Len(st.raw)))),
          raw |-> IF st.i < st.n THEN Some(SubSeq(st.raw, st.i + 1, Len(st.raw))) ELSE None,
          consumed |-> st.i,
          reader |-> st.reader, overrun |-> st.overrun,
          oob |-> st.oob \/ st.i > Len(st.raw), unwrap_err |-> st.unwrap_err]

rle_one(rd, rw, lv) ==
    LET st == rle_enter(rd, rw, lv)
    IN  IF st.unwrap_err \/ st.n = 0 THEN rle_result(st) ELSE rle_result(rle_loop(st))

(***************************************************************************)
(* bwt.rs: the Burrows-Wheeler transform of a block, by SA-IS on the block *)
(* written twice.  Idx is i32; a u32 bucket pointer that wrapped below 0   *)
(* is kept as -1.  A record [sa, b, ok] is the suffix array, the buckets   *)
(* and whether no index left its range and no assertion failed.            *)
(***************************************************************************)
\* Idx::MAX
IdxMax == 2147483647

\* usize::MAX, the ptr of an empty block
UsizeMax == -1

\* !x on an Idx
Not(x) == -x - 1

\* s[k] = v, Rust's index
Put(s, k, v) == [s EXCEPT ![k + 1] = v]

\* the elements of S in ascending order (sort_unstable)
SortedSeq(S) ==
    Vec([k \in 1..Cardinality(S) |-> CHOOSE x \in S : Cardinality({ y \in S : y < x }) = k - 1])

\* Buckets::build and Buckets::rebuild: cleared vectors, then layout
build(data, max_sigma_size) ==
    [sigma |-> SortedSeq({ data[k] : k \in 1..Len(data) }),
     sizes |-> Vec([w \in 1..max_sigma_size |->
                       Cardinality({ k \in 1..Len(data) : data[k] = w - 1 })]),
     bptrs |-> Vec([w \in 1..max_sigma_size |-> 0]),
     ok |-> data # << >> /\ \A k \in 1..Len(data) : data[k] < max_sigma_size]

\* acc after the first j words of sigma
RECURSIVE acc_sizes(_, _)
acc_sizes(b, j) == IF j = 0 THEN 0 ELSE acc_sizes(b, j - 1) + At(b.sizes, b.sigma[j])

set_ptrs_to_bucket_heads(b) ==
    [b EXCEPT !.bptrs = Vec([k \in 1..Len(@) |->
        IF b.sizes[k] > 0
        THEN acc_sizes(b, (CHOOSE j \in 1..Len(b.sigma) : b.sigma[j] = k - 1) - 1)
        ELSE @[k]])]

set_ptrs_to_bucket_tails(b) ==
    [b EXCEPT !.bptrs = Vec([k \in 1..Len(@) |->
        IF b.sizes[k] > 0
        THEN acc_sizes(b, CHOOSE j \in 1..Len(b.sigma) : b.sigma[j] = k - 1) - 1
        ELSE @[k]])]

tail_push(st, w, i) ==
    LET bptr == At(st.b.bptrs, w)
    IN  IF ~st.ok \/ bptr < 0 \/ bptr >= Len(st.sa) THEN [st EXCEPT !.ok = FALSE]
        ELSE [st EXCEPT !.sa = Put(@, bptr, i), !.b.bptrs = Put(@, w, bptr - 1)]

head_push(st, w, i) ==
    LET bptr == At(st.b.bptrs, w)
    IN  IF ~st.ok \/ bptr < 0 \/ bptr >= Len(st.sa) THEN [st EXCEPT !.ok = FALSE]
        ELSE [st EXCEPT !.sa = Put(@, bptr, i), !.b.bptrs = Put(@, w, bptr + 1)]

\* debug_assert!: checked by the builds that check overflow
debug_assert(cond) == overflow_checks => cond

Zeros(n) == Vec([k \in 1..n |-> 0])

\* Every loop below is an operator X(.., st, lo, hi) or X(.., st, hi, lo) that
\* runs the loop's body X_step for the indices of the range in the loop's
\* order, halving the range; st holds what the loop carries.  A state with
\* ok = FALSE has panicked and is left as it is: every range looks at its
\* state before it goes on.

\* the body of induced_sort_fwd's loop
fwd_step(data, st, wipe, p) ==
    LET i == At(st.sa, p)
        i_sup == i - 1
        i_sup2 == i - 2
        push_idx == IF i_sup2 < 0 \/ At(data, i_sup2) < At(data, i_sup) THEN Not(i_sup) ELSE i_sup
    IN  IF i > 0
        THEN [head_push(st, At(data, i_sup), push_idx)
                 EXCEPT !.sa = Put(@, p, IF wipe THEN 0 ELSE Not(At(@, p))),
                        !.ok = @ /\ debug_assert(At(data, i_sup) >= At(data, i))]
        ELSE IF i < 0 THEN [st EXCEPT !.sa = Put(@, p, Not(i))]
        ELSE st

RECURSIVE fwd_loop(_, _, _, _, _)
fwd_loop(data, st, wipe, lo, hi) ==
    IF lo >= hi \/ ~st.ok THEN st
    ELSE IF hi = lo + 1 THEN fwd_step(data, st, wipe, lo)
    ELSE fwd_loop(data, fwd_loop(data, st, wipe, lo, (lo + hi) \div 2), wipe, (lo + hi) \div 2, hi)

\* the sentinel's push: data[n - 1] goes first
sentinel_push(data, st, n) ==
    head_push([st EXCEPT !.b = set_ptrs_to_bucket_heads(@)], At(data, n - 1),
              IF At(data, n - 2) < At(data, n - 1) THEN Not(n - 1) ELSE n - 1)

induced_sort_fwd(data, st, wipe) ==
    fwd_loop(data, sentinel_push(data, st, Len(st.sa)), wipe, 0, Len(st.sa))

\* the body of induced_sort_bck's loop
bck_step(data, st, wipe, unflip, p) ==
    LET i == At(st.sa, p)
        i_sup == i - 1
        i_sup2 == i - 2
        push_idx == IF i_sup2 < 0 \/ At(data, i_sup2) > At(data, i_sup) THEN Not(i_sup) ELSE i_sup
    IN  IF i > 0
        THEN [tail_push(st, At(data, i_sup), push_idx)
                 EXCEPT !.sa = IF wipe THEN Put(@, p, 0) ELSE @,
                        !.ok = @ /\ debug_assert(At(data, i_sup) <= At(data, i))]
        ELSE IF unflip /\ i < 0 THEN [st EXCEPT !.sa = Put(@, p, Not(i))]
        ELSE st

RECURSIVE bck_loop(_, _, _, _, _, _)
bck_loop(data, st, wipe, unflip, hi, lo) ==
    IF hi < lo \/ ~st.ok THEN st
    ELSE IF hi = lo THEN bck_step(data, st, wipe, unflip, hi)
    ELSE bck_loop(data, bck_loop(data, st, wipe, unflip, hi, (lo + hi + 1) \div 2),
                  wipe, unflip, (lo + hi + 1) \div 2 - 1, lo)

induced_sort_bck(data, st, wipe, unflip) ==
    bck_loop(data, [st EXCEPT !.b = set_ptrs_to_bucket_tails(@)], wipe, unflip, Len(data) - 1, 0)

\* The right-to-left walk over the types, in sais, bwt, encode_reduced and
\* decode_reduced: k is the index of w, so that w_sub = data[k + 1] and
\* i_sub = k + 1; st.ty_sub is the type of w_sub.  "LMS" when w_sub is LMS.
walk(data, st, k) ==
    IF st.ty_sub = "L"
    THEN IF At(data, k) < At(data, k + 1) THEN "S" ELSE "L"
    ELSE IF At(data, k) > At(data, k + 1) THEN "LMS" ELSE "S"

\* the body of the loop that tail-pushes every LMS index
lms_push_step(data, st, k) ==
    IF walk(data, st, k) = "LMS"
    THEN [tail_push(st, At(data, k + 1), k + 1) EXCEPT !.lms_count = @ + 1, !.ty_sub = "L"]
    ELSE [st EXCEPT !.ty_sub = walk(data, st, k)]

RECURSIVE lms_push(_, _, _, _)
lms_push(data, st, hi, lo) ==
    IF hi < lo \/ ~st.ok THEN st
    ELSE IF hi = lo THEN lms_push_step(data, st, hi)
    ELSE lms_push(data, lms_push(data, st, hi, (lo + hi + 1) \div 2), (lo + hi + 1) \div 2 - 1, lo)

lookup_index(lms_count, lms_idx) == lms_count + (lms_idx \div 2)

\* what encode_reduced's loops carry
encode_init(sa, n) ==
    [sa |-> sa, lms_count |-> 0, ty_sub |-> "L", last_lms |-> n - 1, unseen_lms |-> 0,
     brk |-> FALSE, rword |-> 0, prv_lms |-> 0, prv_lms_len |-> 0, write_ptr |-> n - 1,
     ok |-> TRUE]

\* encode_reduced, first loop: the sorted LMS-substrings to sa[0..lms_count]
compress_lms_step(st, p) ==
    IF At(st.sa, p) < Not(0)
    THEN [st EXCEPT !.sa = IF p >= st.lms_count + 1
                           THEN Put(Put(@, st.lms_count, Not(At(@, p))), p, IdxMax)
                           ELSE Put(@, st.lms_count, Not(At(@, p))),
                    !.lms_count = @ + 1,
                    !.unseen_lms = @ + 1]
    ELSE IF p >= st.lms_count THEN [st EXCEPT !.sa = Put(@, p, IdxMax)]
    ELSE st

RECURSIVE compress_lms(_, _, _)
compress_lms(st, lo, hi) ==
    IF lo >= hi \/ ~st.ok THEN st
    ELSE IF hi = lo + 1 THEN compress_lms_step(st, lo)
    ELSE compress_lms(compress_lms(st, lo, (lo + hi) \div 2), (lo + hi) \div 2, hi)

\* encode_reduced, second loop: the length of each LMS-substring, written
\* at its lookup index, until the last LMS was seen; unseen_lms is a usize
lms_lengths_step(data, st, k) ==
    IF walk(data, st, k) = "LMS"
    THEN [st EXCEPT !.sa = Put(@, lookup_index(st.lms_count, k + 1), (1 + st.last_lms) - (k + 1)),
                    !.last_lms = k + 1,
                    !.unseen_lms = @ - 1,
                    !.brk = st.unseen_lms = 1,
                    !.ty_sub = IF st.unseen_lms = 1 THEN @ ELSE "L",
                    !.ok = debug_assert(st.unseen_lms > 0)]
    ELSE [st EXCEPT !.ty_sub = walk(data, st, k)]

RECURSIVE lms_lengths(_, _, _, _)
lms_lengths(data, st, hi, lo) ==
    IF hi < lo \/ st.brk \/ ~st.ok THEN st
    ELSE IF hi = lo THEN lms_lengths_step(data, st, hi)
    ELSE lms_lengths(data, lms_lengths(data, st, hi, (lo + hi + 1) \div 2),
                     (lo + hi + 1) \div 2 - 1, lo)

\* a comparison that looks at the first word of the two substrings only
substrings_equal_first(data, idx_a, idx_b, len) ==
    len = 0 \/ At(data, idx_a) = At(data, idx_b)

substrings_equal(data, idx_a, idx_b, len) ==
    SubSeq(data, idx_a + 1, idx_a + len) = SubSeq(data, idx_b + 1, idx_b + len)

\* encode_reduced, third loop: LMS-substrings to lexical names
name_lms_step(data, st, i) ==
    LET cur_lms == At(st.sa, i)
        lms_lookup == lookup_index(st.lms_count, cur_lms)
        cur_lms_len == At(st.sa, lms_lookup)
        eq == IF st.prv_lms # 0
              THEN IF st.prv_lms_len = cur_lms_len /\ st.prv_lms_len + cur_lms_len < Len(data)
                   THEN substrings_equal(data, st.prv_lms, cur_lms, st.prv_lms_len)
                   ELSE FALSE
              ELSE FALSE
        rword == IF ~eq /\ st.prv_lms # 0 THEN st.rword + 1 ELSE st.rword
    IN  [st EXCEPT !.sa = Put(@, lms_lookup, rword),
                   !.rword = rword,
                   !.prv_lms = IF eq THEN @ ELSE cur_lms,
                   !.prv_lms_len = IF eq THEN @ ELSE cur_lms_len]

RECURSIVE name_lms(_, _, _, _)
name_lms(data, st, lo, hi) ==
    IF lo >= hi \/ ~st.ok THEN st
    ELSE IF hi = lo + 1 THEN name_lms_step(data, st, lo)
    ELSE name_lms(data, name_lms(data, st, lo, (lo + hi) \div 2), (lo + hi) \div 2, hi)

name_all(data, st) == IF st.ok THEN name_lms(data, st, 0, st.lms_count) ELSE st

\* encode_reduced, last loop: the names to the end of the array
compress_names_step(st, p) ==
    IF At(st.sa, p) # IdxMax
    THEN [st EXCEPT !.sa = Put(@, st.write_ptr, At(@, p)), !.write_ptr = @ - 1]
    ELSE st

RECURSIVE compress_names(_, _, _)
compress_names(st, hi, lo) ==
    IF hi < lo \/ ~st.ok THEN st
    ELSE IF hi = lo THEN compress_names_step(st, hi)
    ELSE compress_names(compress_names(st, hi, (lo + hi + 1) \div 2), (lo + hi + 1) \div 2 - 1, lo)

compress_all(st, n) == IF st.ok THEN compress_names(st, n - 1, st.lms_count) ELSE st

\* (lms_count, new_sigma_size) are .lms_count and .rword + 1 of the result
encode_reduced(data, sa) ==
    compress_all(name_all(data,
                          lms_lengths(data, compress_lms(encode_init(sa, Len(data)), 0, Len(data)),
                                      Len(data) - 2, 0)),
                 Len(data))

\* decode_reduced, first loop: the LMS indices over the reduced string
lms_indices_step(data, st, k) ==
    IF walk(data, st, k) = "LMS"
    THEN [st EXCEPT !.sa = Put(@, st.write_ptr, k + 1), !.write_ptr = @ - 1, !.ty_sub = "L"]
    ELSE [st EXCEPT !.ty_sub = walk(data, st, k)]

RECURSIVE lms_indices(_, _, _, _)
lms_indices(data, st, hi, lo) ==
    IF hi < lo \/ ~st.ok THEN st
    ELSE IF hi = lo THEN lms_indices_step(data, st, hi)
    ELSE lms_indices(data, lms_indices(data, st, hi, (lo + hi + 1) \div 2),
                     (lo + hi + 1) \div 2 - 1, lo)

\* decode_reduced, second loop: sa[p] = sa[n - lms_count + sa[p]]
RECURSIVE deref_lms(_, _, _, _)
deref_lms(sa, lms_count, lo, hi) ==
    IF lo >= hi \/ sa = << >> THEN sa
    ELSE IF hi = lo + 1 THEN Put(sa, lo, At(sa, Len(sa) - lms_count + At(sa, lo)))
    ELSE deref_lms(deref_lms(sa, lms_count, lo, (lo + hi) \div 2), lms_count, (lo + hi) \div 2, hi)

decode_reduced(data, sa, lms_count) ==
    SubSeq(deref_lms(lms_indices(data, [sa |-> sa, ty_sub |-> "L", write_ptr |-> Len(data) - 1, ok |-> TRUE],
                                 Len(data) - 2, 0).sa,
                     lms_count, 0, lms_count),
           1, lms_count) \o Zeros(Len(data) - lms_count)

\* the names are ranks: sa[sa[n - lms_count + p]] = p
RECURSIVE rank_names(_, _, _, _)
rank_names(sa, lms_count, lo, hi) ==
    IF lo >= hi \/ sa = << >> THEN sa
    ELSE IF hi = lo + 1 THEN Put(sa, At(sa, Len(sa) - lms_count + lo), lo)
    ELSE rank_names(rank_names(sa, lms_count, lo, (lo + hi) \div 2), lms_count, (lo + hi) \div 2, hi)

\* the body of the loop that spaces the sorted LMS-suffixes out into buckets
space_out_step(data, st, p) ==
    tail_push([st EXCEPT !.sa = Put(@, p, 0)], At(data, At(st.sa, p)), At(st.sa, p))

RECURSIVE space_out(_, _, _, _)
space_out(data, st, hi, lo) ==
    IF hi < lo \/ ~st.ok THEN st
    ELSE IF hi = lo THEN space_out_step(data, st, hi)
    ELSE space_out(data, space_out(data, st, hi, (lo + hi + 1) \div 2), (lo + hi + 1) \div 2 - 1, lo)

\* the suffix array, the buckets and what the loops of sais and bwt carry
sort_state(sa, buckets, ok, lms_count) ==
    [sa |-> sa, b |-> set_ptrs_to_bucket_tails(buckets), ok |-> ok /\ buckets.ok,
     ty_sub |-> "L", lms_count |-> lms_count, start_suffix |-> UsizeMax]

\* SA-IS step 1: every LMS index into its S-bucket, and the assert on their number
insert_lms(data, sa, buckets) ==
    lms_push(data, sort_state(sa, buckets, Len(data) > 1, 0), Len(data) - 2, 0)

count_checked(st) == [st EXCEPT !.ok = @ /\ st.lms_count <= Len(st.sa) \div 2]

RECURSIVE sais(_, _, _, _)

\* Array::split and the recursive call: the solved reduced problem in
\* sa[0..lms_count], zeros, the reduced string at the end
split_joined(r, rdata, n) ==
    [sa |-> r.sa \o Zeros(n - 2 * Len(rdata)) \o rdata, ok |-> r.ok]

split_sais(new_sigma_size, rdata, n) ==
    split_joined(sais(new_sigma_size, rdata, Zeros(Len(rdata)), build(rdata, new_sigma_size)),
                 rdata, n)

\* SA-IS step 2 on what encode_reduced returned
solve_reduced(e) ==
    IF ~e.ok THEN [sa |-> e.sa, ok |-> FALSE]
    ELSE IF e.rword + 1 # e.lms_count
    THEN split_sais(e.rword + 1, SubSeq(e.sa, Len(e.sa) - e.lms_count + 1, Len(e.sa)), Len(e.sa))
    ELSE [sa |-> rank_names(e.sa, e.lms_count, 0, e.lms_count), ok |-> TRUE]

\* decode_reduced, the bucket tails, and the sorted LMS-suffixes spaced out
sorted_lms(data, e, solved, buckets) ==
    space_out(data,
              sort_state(decode_reduced(data, solved.sa, e.lms_count), buckets, solved.ok,
                         e.lms_count),
              e.lms_count - 1, 0)

reduce(data, e, buckets) == sorted_lms(data, e, solve_reduced(e), buckets)

\* after the two sorts of step 1: sais rebuilds its buckets, bwt kept its own
reduce_sorted(data, st, sigma_size, rebuild) ==
    IF ~st.ok THEN st
    ELSE reduce(data, encode_reduced(data, st.sa),
                IF rebuild THEN build(data, sigma_size) ELSE st.b)

\* if lms_count > 1 { ... }, in sais and in bwt
sort_lms(data, st, sigma_size, rebuild) ==
    IF ~st.ok \/ st.lms_count <= 1 THEN st
    ELSE reduce_sorted(data,
                       induced_sort_bck(data, induced_sort_fwd(data, st, TRUE), TRUE, FALSE),
                       sigma_size, rebuild)

\* sais without its last step, the sort that induces the S-type suffixes
sais_l_type_only(sigma_size, data, sa, buckets) ==
    induced_sort_fwd(data,
                     sort_lms(data, count_checked(insert_lms(data, sa, buckets)),
                              sigma_size, TRUE),
                     FALSE)

sais(sigma_size, data, sa, buckets) ==
    induced_sort_bck(data,
                     induced_sort_fwd(data,
                                      sort_lms(data, count_checked(insert_lms(data, sa, buckets)),
                                               sigma_size, TRUE),
                                      FALSE),
                     FALSE, TRUE)

\* bwt, step 3: the body of the loop that induces the L-type suffixes
bwt_fwd_step(data, st, n, p) ==
    LET i == At(st.sa, p)
        i_sup == i - 1
        i_sup2 == i - 2
        push_idx == IF i_sup2 < 0 \/ At(data, i_sup2) < At(data, i_sup) THEN Not(i_sup) ELSE i_sup
    IN  IF i > 0
        THEN [head_push([st EXCEPT !.sa = Put(@, p, IF i < n THEN Not(At(data, i_sup))
                                                            ELSE Not(256))],
                        At(data, i_sup), push_idx)
                 EXCEPT !.ok = @ /\ debug_assert(At(data, i_sup) >= At(data, i))]
        ELSE IF i < 0 THEN [st EXCEPT !.sa = Put(@, p, Not(i))]
        ELSE st

RECURSIVE bwt_fwd_loop(_, _, _, _, _)
bwt_fwd_loop(data, st, n, lo, hi) ==
    IF lo >= hi \/ ~st.ok THEN st
    ELSE IF hi = lo + 1 THEN bwt_fwd_step(data, st, n, lo)
    ELSE bwt_fwd_loop(data, bwt_fwd_loop(data, st, n, lo, (lo + hi) \div 2), n, (lo + hi) \div 2, hi)

\* bwt, step 3: the body of the loop that induces the S-type suffixes
bwt_bck_step(data, st, n, p) ==
    LET i == At(st.sa, p)
        i_sup == i - 1
        i_sup2 == i - 2
        push_idx == IF i_sup2 < 0 THEN 0
                    ELSE IF At(data, i_sup2) > At(data, i_sup)
                    THEN (IF i_sup < n THEN Not(At(data, i_sup2)) ELSE Not(256))
                    ELSE i_sup
    IN  IF i > 0
        THEN [tail_push([st EXCEPT !.sa = Put(@, p, IF i < n THEN At(data, i_sup) ELSE 256)],
                        At(data, i_sup), push_idx)
                 EXCEPT !.ok = @ /\ debug_assert(At(data, i_sup) <= At(data, i))]
        ELSE IF i < 0 THEN [st EXCEPT !.sa = Put(@, p, Not(i))]
        ELSE [st EXCEPT !.start_suffix = p]

RECURSIVE bwt_bck_loop(_, _, _, _, _)
bwt_bck_loop(data, st, n, hi, lo) ==
    IF hi < lo \/ ~st.ok THEN st
    ELSE IF hi = lo THEN bwt_bck_step(data, st, n, hi)
    ELSE bwt_bck_loop(data, bwt_bck_loop(data, st, n, hi, (lo + hi + 1) \div 2),
                      n, (lo + hi + 1) \div 2 - 1, lo)

bwt_induce(data, st, n) ==
    bwt_bck_loop(data,
                 [bwt_fwd_loop(data, sentinel_push(data, st, 2 * n), n, 0, 2 * n)
                     EXCEPT !.b = set_ptrs_to_bucket_tails(@)],
                 n, 2 * n - 1, 0)

\* the last loop of bwt with start_ptr counted from 1
bwt_collect_step_one_based(sa, start_suffix, c, n, p) ==
    IF p = start_suffix
    THEN IF c.j < Len(c.data)
         THEN [c EXCEPT !.data = Put(@, c.j, At(@, n - 1)), !.start_ptr = c.j - n + 1, !.j = @ + 1]
         ELSE [c EXCEPT !.ok = FALSE]
    ELSE IF At(sa, p) < 256
    THEN IF c.j < Len(c.data)
         THEN [c EXCEPT !.data = Put(@, c.j, At(sa, p) % 256), !.j = @ + 1]
         ELSE [c EXCEPT !.ok = FALSE]
    ELSE c

\* bwt, the last loop: the transform into data[n..], c carries data, j and start_ptr
bwt_collect_step(sa, start_suffix, c, n, p) ==
    IF p = start_suffix
    THEN IF c.j < Len(c.data)
         THEN [c EXCEPT !.data = Put(@, c.j, At(@, n - 1)), !.start_ptr = c.j - n, !.j = @ + 1]
         ELSE [c EXCEPT !.ok = FALSE]
    ELSE IF At(sa, p) < 256
    THEN IF c.j < Len(c.data)
         THEN [c EXCEPT !.data = Put(@, c.j, At(sa, p) % 256), !.j = @ + 1]
         ELSE [c EXCEPT !.ok = FALSE]
    ELSE c

RECURSIVE bwt_collect(_, _, _, _, _, _)
bwt_collect(sa, start_suffix, c, n, lo, hi) ==
    IF lo >= hi \/ ~c.ok THEN c
    ELSE IF hi = lo + 1 THEN bwt_collect_step(sa, start_suffix, c, n, lo)
    ELSE bwt_collect(sa, start_suffix,
                     bwt_collect(sa, start_suffix, c, n, lo, (lo + hi) \div 2),
                     n, (lo + hi) \div 2, hi)

\* has_byte[w] = true for every byte of the block
has_bytes(block) == Vec([w \in 1..256 |-> \E k \in 1..Len(block) : block[k] = w - 1])

\* Bwt { bwt: input.split_off(n), ptr: start_ptr, has_byte }
bwt_split_off(block, c) ==
    [bwt |-> SubSeq(c.data, Len(block) + 1, Len(c.data)), ptr |-> c.start_ptr,
     has_byte |-> has_bytes(block), ok |-> c.ok]

bwt_read(block, data, st) ==
    bwt_split_off(block,
                  bwt_collect(st.sa, st.start_suffix,
                              [data |-> data, j |-> Len(block), start_ptr |-> UsizeMax, ok |-> st.ok],
                              Len(block), 0, Len(data)))

\* bwt for 1 < n: SA-IS on concat(data, data)
bwt_sais(block, data) ==
    bwt_read(block, data,
             bwt_induce(data,
                        sort_lms(data,
                                 count_checked(insert_lms(data, Zeros(Len(data)), build(data, 256))),
                                 256, FALSE),
                        Len(block)))

bwt(block) ==
    IF Len(block) = 0
    THEN [bwt |-> << >>, ptr |-> UsizeMax, has_byte |-> has_bytes(block), ok |-> TRUE]
    ELSE IF Len(block) = 1
    THEN [bwt |-> block, ptr |-> 0, has_byte |-> has_bytes(block), ok |-> TRUE]
    ELSE IF Len(block) >= (IdxMax \div 4) - 1
    THEN [bwt |-> << >>, ptr |-> UsizeMax, has_byte |-> Vec([w \in 1..256 |-> FALSE]), ok |-> TRUE]
    ELSE bwt_sais(block, block \o block)

(***************************************************************************)
(* mtf.rs: move-to-front and the coding of its zero runs, in tandem.       *)
(***************************************************************************)
\* names[b] for every byte b: the bytes marked in has_byte, named in order
names(has_byte) ==
    Vec([b \in 1..256 |->
            IF has_byte[b] THEN Cardinality({ c \in 1..(b - 1) : has_byte[c] }) ELSE 0])

num_names(has_byte) == Cardinality({ b \in 1..Len(has_byte) : has_byte[b] })

\* what the main loop carries; recency = [0, 1, .., num_names - 1, 0, ..]
mtf_init(has_byte) ==
    [output |-> << >>,
     freqs |-> Zeros(258),
     recency |-> Vec([n \in 1..256 |-> IF n <= num_names(has_byte) THEN n - 1 ELSE 0]),
     zero_count |-> 0,
     ok |-> Len(has_byte) <= 256 /\ 0 < num_names(has_byte) /\ num_names(has_byte) < 257]

\* output.push(sym); freqs[sym] += 1
mtf_push(m, sym) ==
    [m EXCEPT !.output = Append(@, sym), !.freqs = Put(@, sym, At(@, sym) + 1)]

\* a coding of the run that writes every bit of zero_count + 1
RECURSIVE rle_code_every_bit(_, _)
rle_code_every_bit(m, code) ==
    IF code = 0 THEN m ELSE rle_code_every_bit(mtf_push(m, code % 2), code \div 2)

\* the closure rle: a run of zero_count zeroes as run_a = 0 and run_b = 1,
\* the bits of zero_count + 1 from the lowest, without the highest
RECURSIVE rle_code(_, _)
rle_code(m, code) ==
    IF code \div 2 = 0 THEN m ELSE rle_code(mtf_push(m, code % 2), code \div 2)

\* if zero_count != 0 { rle(..); zero_count = 0 }
flush_zeros(m) ==
    IF m.zero_count # 0 THEN [rle_code(m, m.zero_count + 1) EXCEPT !.zero_count = 0] ELSE m

\* the shuffle of the recency list as far as i_name, the symbol r_i + 1 for
\* its index r_i, and i_name to the front; without i_name in recency[1..],
\* every entry moves up by one and nothing is written
shuffle(m, i_name) ==
    LET r_i == CHOOSE r \in 1..255 :
                   /\ At(m.recency, r) = i_name
                   /\ \A q \in 1..(r - 1) : At(m.recency, q) # i_name
    IN  IF \E r \in 1..255 : At(m.recency, r) = i_name
        THEN [mtf_push(m, r_i + 1)
                 EXCEPT !.recency = << i_name >> \o SubSeq(@, 1, r_i) \o SubSeq(@, r_i + 2, 256)]
        ELSE [m EXCEPT !.recency = << i_name >> \o SubSeq(@, 1, 255)]

\* the body of the main loop for one byte of buf
mtf_step(m, i_name) ==
    IF i_name = At(m.recency, 0)
    THEN [m EXCEPT !.zero_count = @ + 1]
    ELSE shuffle(flush_zeros(m), i_name)

RECURSIVE mtf_loop(_, _, _, _, _)
mtf_loop(buf, nm, m, lo, hi) ==
    IF lo >= hi \/ ~m.ok THEN m
    ELSE IF hi = lo + 1 THEN mtf_step(m, At(nm, At(buf, lo)))
    ELSE mtf_loop(buf, nm, mtf_loop(buf, nm, m, lo, (lo + hi) \div 2), (lo + hi) \div 2, hi)

\* the end of the block with a symbol for every name and no more: EOB = k
mtf_finish_names_only(m, has_byte) ==
    [output |-> Append(m.output, num_names(has_byte)),
     num_syms |-> num_names(has_byte) + 1,
     freqs |-> Put(m.freqs, num_names(has_byte), 1),
     ok |-> m.ok]

\* output.push(eob); freqs[eob] = 1; Mtf { output, num_syms, freqs }
mtf_finish(m, has_byte) ==
    [output |-> Append(m.output, num_names(has_byte) + 1),
     num_syms |-> num_names(has_byte) + 2,
     freqs |-> Put(m.freqs, num_names(has_byte) + 1, 1),
     ok |-> m.ok]

mtf_and_rle(buf, has_byte) ==
    IF ~mtf_init(has_byte).ok
    THEN [output |-> << >>, num_syms |-> 0, freqs |-> Zeros(258), ok |-> FALSE]
    ELSE mtf_finish(flush_zeros(mtf_loop(buf, names(has_byte), mtf_init(has_byte), 0, Len(buf))),
                    has_byte)

(***************************************************************************)
(* huffman.rs: the coding tree, the priority queue, the tables of code     *)
(* lengths and the coded block.  A Table is the vector of the lengths of   *)
(* the codewords of the symbols.                                           *)
(***************************************************************************)
CODEWORD_MAX_LEN == 17

INIT_LEN_HIGH == 15

INIT_LEN_LOW == 0

NUM_REFINEMENTS == 4

\* Option<usize>::None of a TreeNode's children
NoChild == -1

\* Tree::with_n_leaves: node id is nodes[id]; the root is 0, leaf l is symbol l - 1
with_n_leaves(n) ==
    [nodes |-> Vec([k \in 1..(n + 1) |-> [id |-> k - 1, lchild |-> NoChild, rchild |-> NoChild]]),
     num_leaves |-> n]

\* Tree::tie: the tree and the id of the node that joins left and right
tie(tree, left, right) ==
    IF Len(tree.nodes) = tree.num_leaves * 2 - 1
    THEN [tree |-> [tree EXCEPT !.nodes[1].lchild = left, !.nodes[1].rchild = right],
          parent |-> 0]
    ELSE [tree |-> [tree EXCEPT !.nodes = Append(@, [id |-> Len(@), lchild |-> left,
                                                       rchild |-> right])],
          parent |-> Len(tree.nodes)]

\* Tree::coding_lengths: the walk from node cur at distance len; the stack
\* yields the right child before the left.  A root without children stops
\* the builds that check debug assertions and indexes lengths[0 - 1] in the
\* others: the table comes out empty.
RECURSIVE leaf_lengths(_, _, _, _)
leaf_lengths(tree, lengths, cur, len) ==
    IF lengths = << >> THEN lengths
    ELSE IF tree.nodes[cur + 1].lchild # NoChild /\ tree.nodes[cur + 1].rchild # NoChild
    THEN leaf_lengths(tree,
                      leaf_lengths(tree, lengths, tree.nodes[cur + 1].rchild, len + 1),
                      tree.nodes[cur + 1].lchild, len + 1)
    ELSE IF tree.nodes[cur + 1].id = 0 THEN << >>
    ELSE Put(lengths, tree.nodes[cur + 1].id - 1, len % 256)

coding_lengths(tree) == leaf_lengths(tree, Zeros(tree.num_leaves), 0, 0)

\* max_len of coding_lengths
RECURSIVE table_max_len(_, _)
table_max_len(lengths, k) ==
    IF k = 0 THEN 0 ELSE Max(lengths[k], table_max_len(lengths, k - 1))

\* Priority(sum_frequency, max_dist): the derived order compares the first
\* fields, then the second
priority_lt(a, b) == a[1] < b[1] \/ (a[1] = b[1] /\ a[2] < b[2])

\* impl Add for Priority; max_dist is the height of a subtree, far below 255
priority_add(a, b) == << a[1] + b[1], (IF a[2] > b[2] THEN a[2] ELSE b[2]) + 1 >>

\* FrequencyQueue::insert, its loop: the heap and this_idx when it is left;
\* item(idx) is heap[idx - 1], which is h[idx] here
RECURSIVE sift_up(_, _, _)
sift_up(h, priority, this_idx) ==
    IF priority_lt(priority, h[this_idx \div 2].priority)
    THEN IF this_idx \div 2 = 1
         THEN [heap |-> [h EXCEPT ![this_idx] = h[this_idx \div 2]], this_idx |-> 1]
         ELSE sift_up([h EXCEPT ![this_idx] = h[this_idx \div 2]], priority, this_idx \div 2)
    ELSE [heap |-> h, this_idx |-> this_idx]

insert_at(u, init_idx, item) ==
    IF u.this_idx # init_idx THEN [u.heap EXCEPT ![u.this_idx] = item] ELSE u.heap

insert(h, sym, priority) ==
    IF h = << >> THEN << [sym |-> sym, priority |-> priority] >>
    ELSE insert_at(sift_up(Append(h, [sym |-> sym, priority |-> priority]), priority, Len(h) + 1),
                   Len(h) + 1, [sym |-> sym, priority |-> priority])

\* a loop of extract that always descends to the left child
RECURSIVE sift_down_left(_, _, _)
sift_down_left(h, priority, this_idx) ==
    IF 2 * this_idx > Len(h) THEN [heap |-> h, this_idx |-> this_idx]
    ELSE IF priority_lt(priority, h[2 * this_idx].priority)
    THEN [heap |-> h, this_idx |-> this_idx]
    ELSE sift_down_left([h EXCEPT ![this_idx] = h[2 * this_idx]], priority, 2 * this_idx)

\* FrequencyQueue::extract, its loop: the heap and final_idx
RECURSIVE sift_down(_, _, _)
sift_down(h, priority, this_idx) ==
    LET left_idx == 2 * this_idx
        right_idx == left_idx + 1
        below_idx == IF right_idx <= Len(h)
                        /\ priority_lt(h[right_idx].priority, h[left_idx].priority)
                     THEN right_idx ELSE left_idx
    IN  IF left_idx > Len(h) THEN [heap |-> h, this_idx |-> this_idx]
        ELSE IF priority_lt(priority, h[below_idx].priority)
        THEN [heap |-> h, this_idx |-> this_idx]
        ELSE sift_down([h EXCEPT ![this_idx] = h[below_idx]], priority, below_idx)

extract_at(u, last) == [u.heap EXCEPT ![u.this_idx] = last]

\* the heap without its root, the root, and whether there was one
extract(h) ==
    IF h = << >>
    THEN [heap |-> h, item |-> [sym |-> 0, priority |-> << 0, 0 >>], ok |-> FALSE]
    ELSE IF Len(h) = 1 THEN [heap |-> << >>, item |-> h[1], ok |-> TRUE]
    ELSE [heap |-> extract_at(sift_down([SubSeq(h, 1, Len(h) - 1) EXCEPT ![1] = h[Len(h)]],
                                        h[Len(h)].priority, 1),
                              h[Len(h)]),
          item |-> h[1], ok |-> TRUE]

\* FrequencyQueue::new: symbol s is queued as s + 1 with freqs[s] / scaling + 1
RECURSIVE queue_new(_, _, _, _)
queue_new(h, num_syms, freqs, scaling) ==
    IF Len(h) >= num_syms THEN h
    ELSE queue_new(insert(h, Len(h) + 1, << (At(freqs, Len(h)) \div scaling) + 1, 0 >>),
                   num_syms, freqs, scaling)

\* the inner loop of build_table_from_freqs: two extracts and a tie, until
\* the tie makes the root; an empty tree when extract found the heap empty
RECURSIVE tie_loop(_, _)
tie_loop(tree, h) ==
    LET one == extract(h)
        two == extract(one.heap)
        t == tie(tree, one.item.sym, two.item.sym)
    IN  IF ~one.ok \/ ~two.ok THEN [nodes |-> << >>, num_leaves |-> 0]
        ELSE IF t.parent = 0 THEN t.tree
        ELSE tie_loop(t.tree,
                      insert(two.heap, t.parent,
                             priority_add(one.item.priority, two.item.priority)))

\* the lengths of the first tree, whatever its height
build_table_unscaled(num_syms, freqs, scaling) ==
    coding_lengths(tie_loop(with_n_leaves(num_syms), queue_new(<< >>, num_syms, freqs, scaling)))

\* build_table_from_freqs from the given scaling on; an empty table stands
\* for a panic
RECURSIVE build_table_scaled(_, _, _)
build_table_scaled(num_syms, freqs, scaling) ==
    LET tree == tie_loop(with_n_leaves(num_syms), queue_new(<< >>, num_syms, freqs, scaling))
        lengths == IF tree.nodes = << >> THEN << >> ELSE coding_lengths(tree)
    IN  IF table_max_len(lengths, Len(lengths)) <= CODEWORD_MAX_LEN THEN lengths
        ELSE build_table_scaled(num_syms, freqs, scaling * 2)

build_table_from_freqs(num_syms, freqs) == build_table_scaled(num_syms, freqs, 1)

\* num_tables of encode; 0 stands for the panic on fewer than three symbols
num_tables_of(num_syms) ==
    IF num_syms <= 2 THEN 0
    ELSE IF num_syms <= 199 THEN 2
    ELSE IF num_syms <= 599 THEN 3
    ELSE IF num_syms <= 1199 THEN 4
    ELSE IF num_syms <= 2399 THEN 5
    ELSE 6

\* loop { freq_acc += mtf.freqs[sym_right]; .. }: sym_right and freq_acc
\* when the loop is left, ok = FALSE when freqs was indexed beyond its end
RECURSIVE init_scan(_, _, _, _, _)
init_scan(freqs, num_syms, freq_target, sym_right, freq_acc) ==
    IF sym_right >= Len(freqs)
    THEN [sym_right |-> sym_right, freq_acc |-> freq_acc, ok |-> FALSE]
    ELSE IF freq_acc + At(freqs, sym_right) >= freq_target \/ sym_right + 1 = num_syms
    THEN [sym_right |-> sym_right, freq_acc |-> freq_acc + At(freqs, sym_right), ok |-> TRUE]
    ELSE init_scan(freqs, num_syms, freq_target, sym_right + 1, freq_acc + At(freqs, sym_right))

\* the step back of one symbol on the odd inner tables
init_backtrack(freqs, sc, sym_left, cur_table, num_tables) ==
    IF sc.ok /\ sc.sym_right > sym_left /\ cur_table # 0 /\ cur_table # num_tables - 1
       /\ cur_table % 2 = 1
    THEN [sc EXCEPT !.freq_acc = @ - At(freqs, sc.sym_right), !.sym_right = @ - 1]
    ELSE sc

\* the table of cur_table = Len(it.tables), sym_left and freq_remaining after it
init_table(it, sc, num_syms) ==
    [tables |-> Append(it.tables,
                       Vec([s \in 1..num_syms |->
                               IF s - 1 >= it.sym_left /\ s - 1 <= sc.sym_right
                               THEN INIT_LEN_HIGH ELSE INIT_LEN_LOW])),
     freq_remaining |-> it.freq_remaining - sc.freq_acc,
     sym_left |-> sc.sym_right + 1,
     ok |-> it.ok /\ sc.ok]

\* for cur_table in 0..num_tables
RECURSIVE init_tables(_, _, _, _)
init_tables(it, freqs, num_syms, num_tables) ==
    IF ~it.ok \/ Len(it.tables) >= num_tables THEN it
    ELSE init_tables(init_table(it,
                                init_backtrack(freqs,
                                               init_scan(freqs, num_syms,
                                                         it.freq_remaining
                                                             \div (num_tables - Len(it.tables)),
                                                         it.sym_left, 0),
                                               it.sym_left, Len(it.tables), num_tables),
                                num_syms),
                     freqs, num_syms, num_tables)

\* the cost of input[buf_left..=buf_right] under a table
RECURSIVE segment_cost(_, _, _, _)
segment_cost(table, inp, buf_left, buf_right) ==
    IF buf_left > buf_right THEN 0
    ELSE At(table, At(inp, buf_left)) + segment_cost(table, inp, buf_left + 1, buf_right)

\* best_table: the first table whose cost is below that of every table before it
\* and not above that of any table
best_table(tables, inp, buf_left, buf_right) ==
    CHOOSE t \in 0..(Len(tables) - 1) :
        \A u \in 0..(Len(tables) - 1) :
            /\ segment_cost(At(tables, t), inp, buf_left, buf_right)
                   <= segment_cost(At(tables, u), inp, buf_left, buf_right)
            /\ u < t => segment_cost(At(tables, t), inp, buf_left, buf_right)
                            < segment_cost(At(tables, u), inp, buf_left, buf_right)

\* the segment contributes its frequency to a table's list
RECURSIVE add_segment(_, _, _, _)
add_segment(tf, inp, buf_left, buf_right) ==
    IF buf_left > buf_right THEN tf
    ELSE add_segment(Put(tf, At(inp, buf_left), At(tf, At(inp, buf_left)) + 1),
                     inp, buf_left + 1, buf_right)

\* one segment: its best table, that table's frequencies, the selector
segment(r, inp, buf_left, buf_right, best, final_it) ==
    [r EXCEPT !.table_freqs[best + 1] = add_segment(@, inp, buf_left, buf_right),
              !.selectors = IF final_it THEN Append(@, best) ELSE @]

\* the loop over the segments, from buf_left on
RECURSIVE segments(_, _, _, _)
segments(r, inp, buf_left, final_it) ==
    IF ~r.ok THEN r
    ELSE IF Min(buf_left + SegmentWidth - 1, Len(inp) - 1) + 1 >= Len(inp)
    THEN segment(r, inp, buf_left, Len(inp) - 1,
                 best_table(r.tables, inp, buf_left, Len(inp) - 1), final_it)
    ELSE segments(segment(r, inp, buf_left, buf_left + SegmentWidth - 1,
                          best_table(r.tables, inp, buf_left, buf_left + SegmentWidth - 1),
                          final_it),
                  inp, buf_left + SegmentWidth, final_it)

\* if it != 0 { for table in &mut tables { for s in 0..num_syms { table[s] = 0 } } }
zero_out(tables, num_syms, it) ==
    IF it # 0 THEN Vec([t \in 1..Len(tables) |-> Zeros(num_syms)]) ELSE tables

\* tables[table] = build_table_from_freqs(num_syms, &table_freqs[table])
rebuild_tables(r, num_syms) ==
    [r EXCEPT !.tables = Vec([t \in 1..Len(@) |->
                                 build_table_from_freqs(num_syms, r.table_freqs[t])]),
              !.ok = \A t \in 1..Len(r.tables) :
                         build_table_from_freqs(num_syms, r.table_freqs[t]) # << >>]

\* for it in 0..NUM_REFINEMENTS
RECURSIVE refine(_, _, _, _)
refine(r, inp, num_syms, it) ==
    IF ~r.ok \/ it >= NUM_REFINEMENTS THEN r
    ELSE refine(rebuild_tables(segments([r EXCEPT !.tables = zero_out(@, num_syms, it)],
                                        inp, 0, it = NUM_REFINEMENTS - 1),
                               num_syms),
                inp, num_syms, it + 1)

\* the tables, the frequency lists and the selectors before the first pass
refine_init(it, num_syms) ==
    [tables |-> it.tables,
     table_freqs |-> Vec([t \in 1..Len(it.tables) |-> Zeros(num_syms)]),
     selectors |-> << >>,
     ok |-> it.ok]

\* codes of i + 1 ones, without the zero that ends them
idx_codes_all_ones(i) == Pow2(i + 1) - 1

\* idx_codes[i]: i ones followed by a zero
idx_codes(i) == IF i = 0 THEN 0 ELSE Pow2(i + 1) - 2

\* the selectors from the k-th on, coded by their place idx in selectors_mtf,
\* which moves the selector to the front and the entries before it up by one
RECURSIVE write_selectors(_, _, _, _)
write_selectors(os, selectors_mtf, selectors, k) ==
    IF os.panicked \/ k > Len(selectors) THEN os
    ELSE LET idx == (CHOOSE j \in 1..Len(selectors_mtf) : selectors_mtf[j] = selectors[k]) - 1
         IN  write_selectors(write_bits(os, idx_codes(idx), idx + 1),
                             << selectors[k] >> \o SubSeq(selectors_mtf, 1, idx)
                                 \o SubSeq(selectors_mtf, idx + 2, Len(selectors_mtf)),
                             selectors, k + 1)

\* loop { match l.cmp(&acc) .. }: 0, or 10 and acc += 1, or 11 and acc -= 1
RECURSIVE write_delta(_, _, _)
write_delta(os, l, acc) ==
    IF os.panicked THEN os
    ELSE IF l = acc THEN write_bits(os, 0, 1)
    ELSE IF l > acc THEN write_delta(write_bits(os, 2, 2), l, acc + 1)
    ELSE write_delta(write_bits(os, 3, 2), l, acc - 1)

\* for l in table.iter(), from the k-th length on; acc is the length before
RECURSIVE write_lengths(_, _, _)
write_lengths(os, table, k) ==
    IF os.panicked \/ k > Len(table) THEN os
    ELSE write_lengths(write_delta(os, table[k], IF k = 1 THEN table[1] ELSE table[k - 1]),
                       table, k + 1)

\* for table in tables, from the t-th on: 5 bits of table[0], then the deltas
RECURSIVE write_tables(_, _, _)
write_tables(os, tables, t) ==
    IF os.panicked \/ t > Len(tables) THEN os
    ELSE write_tables(write_lengths(write_bits(os, tables[t][1], 5), tables[t], 1),
                      tables, t + 1)

\* the value of word when the symbols of length l get theirs: the words of
\* each length count up, and word <<= 1 follows every length from min_len on
RECURSIVE first_word(_, _)
first_word(table, l) ==
    IF \A s \in 1..Len(table) : table[s] >= l THEN 0
    ELSE (first_word(table, l - 1) + Cardinality({ s \in 1..Len(table) : table[s] = l - 1 })) * 2

\* coding with the words of a length numbered by symbol, not by place among
\* the symbols of that length
coding_by_symbol(table) ==
    Vec([s \in 1..Len(table) |->
            [word_len |-> table[s], word |-> first_word(table, table[s]) + (s - 1)]])

\* coding[sym] = (word_length, word)
coding(table) ==
    Vec([s \in 1..Len(table) |->
            [word_len |-> table[s],
             word |-> first_word(table, table[s])
                          + Cardinality({ q \in 1..(s - 1) : table[q] = table[s] })]])

\* the coded input from its i-th symbol on
RECURSIVE write_body(_, _, _, _, _)
write_body(os, codings, selectors, inp, i) ==
    IF os.panicked \/ i >= Len(inp) THEN os
    ELSE write_body(write_bits_u32(os,
                                   U32(At(At(codings, At(selectors, i \div SegmentWidth)),
                                          At(inp, i)).word),
                                   At(At(codings, At(selectors, i \div SegmentWidth)),
                                      At(inp, i)).word_len),
                    codings, selectors, inp, i + 1)

\* the output of encode for the tables and selectors r
write_coded(os, r, inp, num_tables) ==
    IF ~r.ok THEN [os EXCEPT !.panicked = TRUE]
    ELSE write_body(write_tables(write_selectors(write_bits_u32(write_bits(os, num_tables, 3),
                                                                U32(Len(r.selectors)), 15),
                                                 Vec([i \in 1..num_tables |-> i - 1]),
                                                 r.selectors, 1),
                                 r.tables, 1),
                    Vec([t \in 1..Len(r.tables) |-> coding(r.tables[t])]),
                    r.selectors, inp, 0)

\* the tables and selectors encode settles on for the output of mtf_and_rle
huffman_tables(mtf) ==
    refine(refine_init(init_tables([tables |-> << >>, freq_remaining |-> Len(mtf.output),
                                    sym_left |-> 0, ok |-> TRUE],
                                   mtf.freqs, mtf.num_syms, num_tables_of(mtf.num_syms)),
                       mtf.num_syms),
           mtf.output, mtf.num_syms, 0)

\* huffman::encode
huffman_encode(os, mtf) ==
    IF os.panicked \/ ~mtf.ok \/ num_tables_of(mtf.num_syms) = 0 \/ mtf.output = << >>
    THEN [os EXCEPT !.panicked = TRUE]
    ELSE write_coded(os, huffman_tables(mtf), mtf.output, num_tables_of(mtf.num_syms))

(***************************************************************************)
(* lib.rs: the stream header, the block header, the symbol map and the     *)
(* stream footer.                                                          *)
(***************************************************************************)
\* "BZh" and the digit of the level
write_stream_header(os, lv) ==
    IF ~(1 <= lv /\ lv <= 9) THEN [os EXCEPT !.panicked = TRUE]
    ELSE write_bytes(os, << 66, 90, 104, 48 + lv >>)

\* the last three bytes of ptr.to_be_bytes(); ptr is a usize
ptr_bytes(ptr) == << (ptr \div 65536) % 256, (ptr \div 256) % 256, ptr % 256 >>

\* the block header with the primary index before the CRC
write_block_header_ptr_first(os, crc, ptr) ==
    write_bytes(write_bits(write_bytes(write_bytes(os, << 49, 65, 89, 38, 83, 89 >>), ptr_bytes(ptr)), 0, 1),
                crc)

write_block_header(os, crc, ptr) ==
    write_bytes(write_bits(write_bytes(write_bytes(os, << 49, 65, 89, 38, 83, 89 >>), crc), 0, 1),
                ptr_bytes(ptr))

\* a sector with the first of its bytes in the lowest bit
RECURSIVE sector_lowest_first(_, _, _)
sector_lowest_first(has_byte, a, b) ==
    IF b = 0 THEN 0
    ELSE 2 * sector_lowest_first(has_byte, a, b - 1)
             + (IF At(has_byte, 16 * a + 16 - b) THEN 1 ELSE 0)

\* the sector of the bytes 16 a .. 16 a + 15, the first of them in the highest bit
RECURSIVE sector(_, _, _)
sector(has_byte, a, b) ==
    IF b = 0 THEN 0
    ELSE 2 * sector(has_byte, a, b - 1) + (IF At(has_byte, 16 * a + b - 1) THEN 1 ELSE 0)

\* sector_map after the sectors below a, the first sector in the highest bit
RECURSIVE sector_map(_, _)
sector_map(has_byte, a) ==
    IF a = 0 THEN 0
    ELSE 2 * sector_map(has_byte, a - 1) + (IF sector(has_byte, a - 1, 16) # 0 THEN 1 ELSE 0)

\* for s in sectors, from sector a on
RECURSIVE write_sectors(_, _, _)
write_sectors(os, has_byte, a) ==
    IF os.panicked \/ a >= 16 THEN os
    ELSE write_sectors(IF sector(has_byte, a, 16) # 0
                       THEN write_bytes(os, ToBeBytes16(sector(has_byte, a, 16)))
                       ELSE os,
                       has_byte, a + 1)

write_sym_map(os, has_byte) ==
    IF os.panicked \/ Len(has_byte) < 256 \/ sector_map(has_byte, 16) = 0
    THEN [os EXCEPT !.panicked = TRUE]
    ELSE write_sectors(write_bytes(os, ToBeBytes16(sector_map(has_byte, 16))), has_byte, 0)

\* the footer without its CRC
write_stream_footer_magic_only(os, crc) == write_bytes(os, << 23, 114, 69, 56, 80, 144 >>)

write_stream_footer(os, crc) == write_bytes(write_bytes(os, << 23, 114, 69, 56, 80, 144 >>), crc)

\* the shift without the bit that comes round: x << 1
RotL1_shift_only(x) ==
    << ((x[1] * 2) % 256) + (x[2] \div 128), ((x[2] * 2) % 256) + (x[3] \div 128),
       ((x[3] * 2) % 256) + (x[4] \div 128), (x[4] * 2) % 256 >>

\* (x << 1) | (x >> 31) on a u32
RotL1(x) ==
    << ((x[1] * 2) % 256) + (x[2] \div 128), ((x[2] * 2) % 256) + (x[3] \div 128),
       ((x[3] * 2) % 256) + (x[4] \div 128), ((x[4] * 2) % 256) + (x[1] \div 128) >>

(***************************************************************************)
(* The bit sink as a state machine: any of its calls, then close.          *)
(***************************************************************************)
out_vars == << overflow_checks, output, calls, closed >>

enc_vars == << input, level, reader, raw, rle, blocks, enc, pc >>

\* the variables of the encoder but its position
enc_vars_but_pc == << input, level, reader, raw, rle, blocks, enc >>

vars == << out_vars, enc_vars >>

\* the variables of the encoder while only the sink runs
EncIdle ==
    /\ input = << >>
    /\ level = 1
    /\ reader = [data |-> << >>, cap |-> 1, errs_after |-> NoErr]
    /\ raw = << >>
    /\ rle = << >>
    /\ blocks = << >>
    /\ enc = << >>
    /\ pc = "sink"

\* values handed to write_bits with num_bits = k: three below 2^k, two with
\* bits set at or above position k
ChunkSamples(k) == { 0, Pow2(k) - 1, 170 % Pow2(k), 255 }

\* values handed to write_bits_u32 with num_bits = k: one below 2^k, and for
\* some k one with bits set at or above position k
WordSamples(k) ==
    { U32(Pow2(Min(k, 30)) - 1) }
        \cup (IF k \in { 0, 4, 9, 16, 31, 32 } THEN { << 202, 254, 186, 190 >> } ELSE { })

SliceSamples == { << 202, 254, 186, 190 >>, << 49 >> }

OutInit ==
    /\ overflow_checks \in BOOLEAN
    /\ output = OutputStreamNew
    /\ calls = << >>
    /\ closed = FALSE
    /\ EncIdle

OutOpen == ~closed /\ ~output.panicked /\ Len(calls) < MaxCalls

WriteBits ==
    \E num_bits \in 0..8 : \E chunk \in ChunkSamples(num_bits) :
        /\ OutOpen
        /\ output' = write_bits(output, chunk, num_bits)
        /\ calls' = Append(calls, [op |-> "write_bits", value |-> chunk, num_bits |-> num_bits])
        /\ UNCHANGED << overflow_checks, closed, enc_vars >>

WriteBitsU32 ==
    \E num_bits \in 0..32 : \E chunk \in WordSamples(num_bits) :
        /\ OutOpen
        /\ output' = write_bits_u32(output, chunk, num_bits)
        /\ calls' = Append(calls, [op |-> "write_bits_u32", value |-> chunk, num_bits |-> num_bits])
        /\ UNCHANGED << overflow_checks, closed, enc_vars >>

WriteByte ==
    \E byte \in { 200 } :
        /\ OutOpen
        /\ output' = write_byte(output, byte)
        /\ calls' = Append(calls, [op |-> "write_byte", value |-> byte, num_bits |-> 8])
        /\ UNCHANGED << overflow_checks, closed, enc_vars >>

WriteBytes ==
    \E bytes \in SliceSamples :
        /\ OutOpen
        /\ output' = write_bytes(output, bytes)
        /\ calls' = Append(calls, [op |-> "write_bytes", value |-> bytes, num_bits |-> 8 * Len(bytes)])
        /\ UNCHANGED << overflow_checks, closed, enc_vars >>

Close ==
    /\ ~closed /\ ~output.panicked
    /\ output' = close(output)
    /\ closed' = TRUE
    /\ UNCHANGED << overflow_checks, calls, enc_vars >>

OutNext == WriteBits \/ WriteBitsU32 \/ WriteByte \/ WriteBytes \/ Close

SpecOut == OutInit /\ [][OutNext]_vars

(***************************************************************************)
(* What the calls submit: the reference the sink is compared with.         *)
(***************************************************************************)
\* the low k bits of v, most significant first
LowBits(v, k) == Vec([j \in 1..k |-> (v \div Pow2(k - j)) % 2])

RECURSIVE BytesBits(_)
BytesBits(bytes) ==
    IF bytes = << >> THEN << >> ELSE LowBits(Head(bytes), 8) \o BytesBits(Tail(bytes))

CallBits(c) ==
    IF c.op = "write_bytes" THEN BytesBits(c.value)
    ELSE IF c.op = "write_bits_u32"
    THEN SubSeq(BytesBits(c.value), 33 - c.num_bits, 32)
    ELSE LowBits(c.value, c.num_bits)

RECURSIVE Submitted(_)
Submitted(cs) ==
    IF cs = << >> THEN << >> ELSE CallBits(Head(cs)) \o Submitted(Tail(cs))

\* bits packed eight per byte, the last byte padded with zero bits on the right
PackBits(bits) ==
    LET n == (Len(bits) + 7) \div 8
        bit(i) == IF i <= Len(bits) THEN bits[i] ELSE 0
        byte(j) == bit(8*j - 7) * 128 + bit(8*j - 6) * 64 + bit(8*j - 5) * 32
                   + bit(8*j - 4) * 16 + bit(8*j - 3) * 8 + bit(8*j - 2) * 4
                   + bit(8*j - 1) * 2 + bit(8*j)
    IN  Vec([j \in 1..n |-> byte(j)])

\* the bits the stream holds: the sink's bytes, then the partial byte
HeldBits(os) == BytesBits(os.writer) \o LowBits(os.strand \div Pow2(8 - os.strand_bits), os.strand_bits)

\* the precondition C6 states: write_bits(v, k) with k <= 8 and v < 2^k
StatedContract(c) ==
    c.op = "write_bits" => (c.num_bits <= 8 /\ c.value < Pow2(c.num_bits))

\* every call submits a value that fits its width, and no width is one of
\* the two at which the index arithmetic leaves its range
NarrowContract(c) ==
    /\ c.op = "write_bits" => (1 <= c.num_bits /\ c.num_bits <= 8 /\ c.value < Pow2(c.num_bits))
    /\ c.op = "write_bits_u32" =>
          /\ c.num_bits < 32
          /\ \A j \in 1..(32 - c.num_bits) : BytesBits(c.value)[j] = 0

\* C6: for any sequence of write_bits(v, k) (k <= 8, v < 2^k), write_byte,
\* write_bytes and write_bits_u32 calls followed by close, no call aborts and
\* the sink holds the submitted bit strings in call order, packed MSB-first
\* eight to a byte, the last partial byte padded with zero bits.
C6_SinkIsConcatenation ==
    (\A i \in 1..Len(calls) : StatedContract(calls[i])) =>
        /\ ~output.panicked
        /\ closed => output.writer = PackBits(Submitted(calls))

\* The same with the contract narrowed to widths 1..8 (write_bits) and 0..31
\* (write_bits_u32) and to values that fit their width: the sink and the
\* partial byte hold exactly the submitted bits at every point.
C6_NarrowSinkIsConcatenation ==
    (\A i \in 1..Len(calls) : NarrowContract(calls[i])) =>
        /\ ~output.panicked
        /\ ~closed => HeldBits(output) = Submitted(calls)
        /\ closed => output.writer = PackBits(Submitted(calls))

(***************************************************************************)
(* Inputs.                                                                 *)
(***************************************************************************)
\* byte values of the inputs: two that are also run counts, and one of the
\* last sector of the symbol map
Alphabet == { 0, 1, 255 }

Levels == 1..9

\* chunk sizes of the reader: fill_buf hands out at most this many bytes
Caps == { 1, 4, 64 }

SeqsUpTo(S, n) == UNION { [1..k -> S] : k \in 0..n }

Rep(x, n) == Vec([k \in 1..n |-> x])

TwoRuns == { Rep(x, p) \o Rep(y, q) : x \in Alphabet, y \in Alphabet, p \in 0..MaxRun, q \in 0..MaxRun }

RleInputs == SeqsUpTo(Alphabet, MaxLen) \cup TwoRuns

(***************************************************************************)
(* rle_one as a state machine, called the way encode calls it: with the    *)
(* remainder of the previous call, until a call consumes nothing or hands  *)
(* back no remainder.                                                      *)
(***************************************************************************)
SinkIdle ==
    /\ overflow_checks = TRUE
    /\ output = OutputStreamNew
    /\ calls = << >>
    /\ closed = FALSE

RleInit ==
    /\ SinkIdle
    /\ input \in RleInputs
    /\ level \in Levels
    /\ \E cap \in Caps : reader = [data |-> input, cap |-> cap, errs_after |-> NoErr]
    /\ raw = << >>
    /\ rle = << >>
    /\ blocks = << >>
    /\ enc = << >>
    /\ pc = "rle_one"

\* encode's step after a call returned r
AfterRle(r) ==
    /\ blocks' = Append(blocks, r)
    /\ reader' = r.reader
    /\ rle' = << >>
    /\ IF r.unwrap_err THEN pc' = "panicked" /\ raw' = raw
       ELSE IF r.consumed = 0 \/ r.raw = None
       THEN pc' = "done" /\ raw' = << >>
       ELSE pc' = "rle_one" /\ raw' = r.raw.vec

\* the call, up to the first iteration of its loop
RleEnter ==
    /\ pc = "rle_one"
    /\ LET st == rle_enter(reader, raw, level)
       IN  IF st.n = 0
           THEN AfterRle(rle_result(st))
           ELSE /\ rle' = st
                /\ pc' = "loop"
                /\ UNCHANGED << reader, raw, blocks >>
    /\ UNCHANGED << out_vars, enc, input, level >>

RleIter ==
    /\ pc = "loop"
    /\ ~rle.brk
    /\ rle' = rle_iter(rle)
    /\ UNCHANGED << out_vars, enc, input, level, reader, raw, blocks, pc >>

RleReturn ==
    /\ pc = "loop"
    /\ rle.brk
    /\ AfterRle(rle_result(rle))
    /\ UNCHANGED << out_vars, enc, input, level >>

RleNext == RleEnter \/ RleIter \/ RleReturn

SpecRle == RleInit /\ [][RleNext]_vars

(***************************************************************************)
(* The reference RLE1 encoding.                                            *)
(***************************************************************************)
\* the length of the maximal run that starts at s[k]
RunLen(s, k) ==
    CHOOSE l \in 1..(Len(s) - k + 1) :
        /\ \A j \in k..(k + l - 1) : s[j] = s[k]
        /\ (k + l <= Len(s) => s[k + l] # s[k])

\* a run of l bytes x: groups of four copies and a count, then the leftover
RECURSIVE RunGroups(_, _)
RunGroups(x, l) ==
    IF l < 4 THEN Rep(x, l)
    ELSE LET g == Min(l, MaxRep + 4)
         IN  Rep(x, 4) \o << g - 4 >> \o RunGroups(x, l - g)

RECURSIVE RefRle1From(_, _)
RefRle1From(s, k) ==
    IF k > Len(s) THEN << >>
    ELSE LET l == RunLen(s, k) IN RunGroups(s[k], l) \o RefRle1From(s, k + l)

RefRle1(s) == RefRle1From(s, 1)

max_len(lv) == BlockUnit * lv - 1

\* C7: when the whole input fits in one block, rle_one consumes the entire
\* input and its output is the reference RLE1 encoding of the input.
C7_OneBlockIsReferenceRle ==
    (Len(blocks) >= 1 /\ Len(RefRle1(input)) <= max_len(level)) =>
        /\ blocks[1].consumed = Len(input)
        /\ blocks[1].output = RefRle1(input)

\* a run that spans two full groups and a leftover was encoded in one block
C7_Witness ==
    /\ Len(blocks) = 1
    /\ Len(input) = 2 * (MaxRep + 4) + 1
    /\ \A k \in 1..Len(input) : input[k] = input[1]
    /\ blocks[1].consumed = Len(input)
    /\ blocks[1].output = RefRle1(input)

\* C8: the output of one rle_one call has at most max_len bytes, and push is
\* never called when the remaining bound is 0.
C8_PushWithinBound ==
    /\ pc = "loop" =>
          /\ ~rle.overrun
          /\ rle.bound >= 0
          /\ Len(rle.buffer) + rle.bound = max_len(level)
    /\ \A k \in 1..Len(blocks) :
          /\ ~blocks[k].overrun
          /\ Len(blocks[k].output) <= max_len(level)

\* a run group's count byte took the last free place of the block, with
\* input left over
C8_Witness ==
    /\ pc = "loop"
    /\ rle.brk
    /\ rle.bound = 0
    /\ rle.i < rle.n
    /\ Len(rle.buffer) >= 5
    /\ LET m == Len(rle.buffer)
       IN  /\ \A j \in (m - 4)..(m - 1) : rle.buffer[j] = 255
           /\ rle.buffer[m] = MaxRep

(***************************************************************************)
(* bwt as a state machine: one call on a block.                            *)
(***************************************************************************)
\* "SIX.MIXED.PIXIES.SIFT.SIXTY.PIXIE.DUST.BOXES"
smoke_test ==
    << 83, 73, 88, 46, 77, 73, 88, 69, 68, 46, 80, 73, 88, 73, 69, 83,
       46, 83, 73, 70, 84, 46, 83, 73, 88, 84, 89, 46, 80, 73, 88, 73,
       69, 46, 68, 85, 83, 84, 46, 66, 79, 88, 69, 83 >>

\* "TEXYDST.E.IXIXIXXSSMPPS.B..E.S.EUSFXDIIOIIIT"
smoke_test_bwt ==
    << 84, 69, 88, 89, 68, 83, 84, 46, 69, 46, 73, 88, 73, 88, 73, 88,
       88, 83, 83, 77, 80, 80, 83, 46, 66, 46, 46, 69, 46, 83, 46, 69,
       85, 83, 70, 88, 68, 73, 73, 79, 73, 73, 73, 84 >>

BwtInputs == SeqsUpTo(Alphabet, MaxLen) \cup SeqsUpTo({ 0, 1 }, MaxLen + 3) \cup { smoke_test }

BwtInit ==
    /\ overflow_checks \in BOOLEAN
    /\ output = OutputStreamNew
    /\ calls = << >>
    /\ closed = FALSE
    /\ input \in BwtInputs
    /\ level = 1
    /\ reader = [data |-> << >>, cap |-> 1, errs_after |-> NoErr]
    /\ raw = << >>
    /\ rle = << >>
    /\ blocks = << >>
    /\ enc = << >>
    /\ pc = "bwt"

Bwt ==
    /\ pc = "bwt"
    /\ blocks' = << bwt(input) >>
    /\ pc' = "done"
    /\ UNCHANGED << out_vars, enc, input, level, reader, raw, rle >>

BwtNext == Bwt

SpecBwt == BwtInit /\ [][BwtNext]_vars

(***************************************************************************)
(* The reference transform: the sorted matrix of the cyclic rotations.     *)
(***************************************************************************)
\* the rotation of s that starts at s[k]
Rot(s, k) == [j \in 1..Len(s) |-> s[((k + j - 2) % Len(s)) + 1]]

LexLess(a, b) == \E j \in 1..Len(a) : a[j] < b[j] /\ \A m \in 1..(j - 1) : a[m] = b[m]

\* a rotation that stands in row r (from 0) of the sorted matrix
RowOf(s, r) ==
    CHOOSE k \in 1..Len(s) :
        /\ Cardinality({ j \in 1..Len(s) : LexLess(Rot(s, j), Rot(s, k)) }) <= r
        /\ r < Cardinality({ j \in 1..Len(s) : ~LexLess(Rot(s, k), Rot(s, j)) })

LastColumn(s) == [r \in 1..Len(s) |-> Rot(s, RowOf(s, r - 1))[Len(s)]]

\* C9: for every block of n >= 2 bytes, bwt returns the last column of the
\* sorted matrix of the block's rotations, and ptr is a row of that matrix
\* that holds the block itself; for the test string, the stated transform
\* and ptr 29.
C9_BwtIsLastColumn ==
    (pc = "done" /\ Len(input) >= 2) =>
        /\ blocks[1].ok
        /\ blocks[1].bwt = LastColumn(input)
        /\ blocks[1].ptr \in 0..(Len(input) - 1)
        /\ Rot(input, RowOf(input, blocks[1].ptr)) = input
        /\ input = smoke_test => (blocks[1].bwt = smoke_test_bwt /\ blocks[1].ptr = 29)

\* the transform of the test string was computed
C9_Witness ==
    /\ pc = "done"
    /\ input = smoke_test
    /\ blocks[1].bwt = smoke_test_bwt
    /\ blocks[1].ptr = 29

(***************************************************************************)
(* mtf_and_rle as a state machine: one call on a transformed block, with   *)
(* the has_byte that bwt returns for it.                                   *)
(***************************************************************************)
\* the test of mtf.rs
mtf_basic ==
    << 153, 45, 45, 38, 135, 179, 26, 154, 165, 170, 170, 170, 170, 18, 109, 240, 174, 150,
       87, 164, 30, 30, 30, 30, 30, 30, 30, 148, 190, 10, 60, 13, 13, 13, 13, 13, 6, 81, 200,
       13, 225, 32, 17, 43, 22, 179, 13, 13, 17, 236, 236, 236, 236, 236, 236, 236, 121, 211,
       2, 211, 185, 54, 16, 5, 5, 5, 5, 5, 5, 5, 5, 5, 5, 5, 5, 5, 5, 5, 5, 5, 5, 5, 5, 5, 5,
       50, 5, 5, 5, 5, 5, 5, 5, 5, 5, 5, 5, 5, 5, 5, 5, 5, 5, 5, 5, 5, 5, 5, 40 >>

mtf_basic_expected ==
    << 27, 17, 0, 15, 25, 33, 15, 29, 31, 32, 0, 0, 17, 28, 40, 34, 33, 31, 34, 25, 1, 1, 34,
       36, 23, 33, 25, 1, 0, 25, 34, 37, 4, 39, 32, 31, 34, 33, 26, 7, 0, 5, 40, 1, 1, 38, 40,
       34, 2, 40, 40, 38, 38, 0, 1, 1, 0, 40, 2, 0, 1, 1, 0, 40, 41 >>

\* a byte between two bytes, and a run between two bytes
Sandwiches ==
    { << x >> \o Rep(y, q) \o << z >> : x \in Alphabet, y \in Alphabet, z \in Alphabet,
                                        q \in 0..MaxRun }

\* every byte value once, the greatest first: 256 names, each byte at the last
\* place of the recency list when it comes
every_byte == Vec([k \in 1..256 |-> 256 - k])

MtfInputs ==
    SeqsUpTo(Alphabet, MaxLen) \cup TwoRuns \cup Sandwiches \cup { mtf_basic, every_byte }

MtfInit ==
    /\ overflow_checks \in BOOLEAN
    /\ output = OutputStreamNew
    /\ calls = << >>
    /\ closed = FALSE
    /\ input \in MtfInputs
    /\ level = 1
    /\ reader = [data |-> << >>, cap |-> 1, errs_after |-> NoErr]
    /\ raw = << >>
    /\ rle = << >>
    /\ blocks = << >>
    /\ enc = << >>
    /\ pc = "mtf"

Mtf ==
    /\ pc = "mtf"
    /\ blocks' = << mtf_and_rle(input, has_bytes(input)) >>
    /\ pc' = "done"
    /\ UNCHANGED << out_vars, enc, input, level, reader, raw, rle >>

MtfNext == Mtf

SpecMtf == MtfInit /\ [][MtfNext]_vars

(***************************************************************************)
(* The reference coding, in two stages: the move-to-front indices of the   *)
(* names, then the coding of the runs of index 0.                          *)
(***************************************************************************)
\* the bytes of s, and the rank of b among them
Present(s) == { s[j] : j \in 1..Len(s) }

NameOf(s, b) == Cardinality({ c \in Present(s) : c < b })

\* the position (from 0) of x in the list l
IndexIn(l, x) == (CHOOSE r \in 1..Len(l) : l[r] = x) - 1

\* l with x moved to its front
ToFront(l, x) == << x >> \o SubSeq(l, 1, IndexIn(l, x)) \o SubSeq(l, IndexIn(l, x) + 2, Len(l))

\* the recency list l after the bytes s[lo..hi]
RECURSIVE RecencyAfter(_, _, _, _)
RecencyAfter(s, l, lo, hi) ==
    IF lo > hi \/ l = << >> THEN l
    ELSE IF lo = hi THEN ToFront(l, NameOf(s, s[lo]))
    ELSE RecencyAfter(s, RecencyAfter(s, l, lo, (lo + hi) \div 2), (lo + hi) \div 2 + 1, hi)

\* the move-to-front index of every byte of s
MtfIndices(s) ==
    [i \in 1..Len(s) |->
        IndexIn(RecencyAfter(s, [n \in 1..Cardinality(Present(s)) |-> n - 1], 1, i - 1),
                NameOf(s, s[i]))]

\* z > 0 in bijective base 2, lowest digit first: RUNA = 0 is the digit 1
\* and RUNB = 1 is the digit 2
RECURSIVE BijectiveDigits(_)
BijectiveDigits(z) ==
    IF z = 0 THEN << >>
    ELSE IF z % 2 = 1 THEN << 0 >> \o BijectiveDigits((z - 1) \div 2)
    ELSE << 1 >> \o BijectiveDigits((z - 2) \div 2)

\* the value of the digits d: the digit at place j weighs 2^(j - 1)
RECURSIVE DigitsValue(_)
DigitsValue(d) == IF d = << >> THEN 0 ELSE (d[1] + 1) + 2 * DigitsValue(Tail(d))

\* the length of the run of index 0 that ends at position i
RECURSIVE ZeroRunEndingAt(_, _)
ZeroRunEndingAt(x, i) == IF i = 0 \/ x[i] # 0 THEN 0 ELSE 1 + ZeroRunEndingAt(x, i - 1)

\* what position i of the indices x contributes: r + 1 for an index r > 0,
\* the digits of z where a maximal run of z indices 0 ends, else nothing
Rle2At(x, i) ==
    IF x[i] > 0 THEN << x[i] + 1 >>
    ELSE IF i = Len(x) \/ x[i + 1] # 0 THEN BijectiveDigits(ZeroRunEndingAt(x, i))
    ELSE << >>

RECURSIVE Rle2Range(_, _, _)
Rle2Range(x, lo, hi) ==
    IF lo > hi THEN << >>
    ELSE IF lo = hi THEN Rle2At(x, lo)
    ELSE Rle2Range(x, lo, (lo + hi) \div 2) \o Rle2Range(x, (lo + hi) \div 2 + 1, hi)

RefMtfRle2(s) == Rle2Range(MtfIndices(s), 1, Len(s)) \o << Cardinality(Present(s)) + 1 >>

BitPos(os) == 8 * Len(os.writer) + os.strand_bits

Part(op) == [op |-> op, at |-> BitPos(output)]

\* the level argument: 0 and 10 are not levels
LevelArgs == 0..10

\* the lengths of the buffer the reader hands out at a time
EncCaps == { 1, 4, 64 }

EncInputs ==
    SeqsUpTo({ 0, 1 }, MaxLen)
        \cup SeqsUpTo(Alphabet, MaxLen - 2)
        \cup { Rep(x, p) : x \in { 0, 255 }, p \in 0..MaxRun }
        \cup { Rep(1, p) \o Rep(0, q) : p \in { 1, 4 }, q \in { 4, 5, 6, 7 } }

EncInit ==
    /\ overflow_checks \in BOOLEAN
    /\ output = OutputStreamNew
    /\ calls = << >>
    /\ closed = FALSE
    /\ input \in EncInputs
    /\ level \in LevelArgs
    /\ \E cap \in EncCaps : reader = [data |-> input, cap |-> cap, errs_after |-> NoErr]
    /\ raw = << >>
    /\ rle = << >>
    /\ blocks = << >>
    /\ enc = [stream_crc |-> U32(0), consumed |-> 0, rle_out |-> << >>, bwt_out |-> << >>,
              ret |-> -1]
    /\ pc = "write_stream_header"

\* a panic ends the run
Goto(os, next) == pc' = IF os.panicked THEN "panicked" ELSE next

\* assert!(1 <= level && level <= 9); OutputStream::new; write_stream_header
EncWriteStreamHeader ==
    /\ pc = "write_stream_header"
    /\ IF 1 <= level /\ level <= 9
       THEN /\ output' = write_stream_header(output, level)
            /\ calls' = Append(calls, Part("write_stream_header"))
            /\ Goto(output', "rle_one")
       ELSE /\ pc' = "panicked"
            /\ UNCHANGED << output, calls >>
    /\ UNCHANGED << overflow_checks, closed, input, level, reader, raw, rle, blocks, enc >>

\* the block in hand after rle_one returned r and bwt returned b
AfterBwt(r, b) ==
    /\ enc' = [enc EXCEPT !.stream_crc = Xor32(r.chk, RotL1(@)), !.rle_out = r, !.bwt_out = b]
    /\ pc' = IF b.ok THEN "write_block_header" ELSE "panicked"

\* rle_one; without input left the loop is left, else the checksums and bwt
AfterRleOne(r) ==
    /\ reader' = r.reader
    /\ IF r.overrun \/ r.oob \/ r.unwrap_err THEN pc' = "panicked" /\ enc' = enc
       ELSE IF r.consumed = 0 THEN pc' = "write_stream_footer" /\ enc' = enc
       ELSE AfterBwt(r, bwt(r.output))

EncRleOne ==
    /\ pc = "rle_one"
    /\ AfterRleOne(rle_one(reader, raw, level))
    /\ UNCHANGED << out_vars, input, level, raw, rle, blocks >>

EncWriteBlockHeader ==
    /\ pc = "write_block_header"
    /\ output' = write_block_header(output, enc.rle_out.chk, enc.bwt_out.ptr)
    /\ calls' = Append(calls, Part("write_block_header"))
    /\ Goto(output', "write_sym_map")
    /\ UNCHANGED << overflow_checks, closed, input, level, reader, raw, rle, blocks, enc >>

EncWriteSymMap ==
    /\ pc = "write_sym_map"
    /\ output' = write_sym_map(output, enc.bwt_out.has_byte)
    /\ calls' = Append(calls, Part("write_sym_map"))
    /\ Goto(output', "huffman")
    /\ UNCHANGED << overflow_checks, closed, input, level, reader, raw, rle, blocks, enc >>

\* mtf_and_rle, huffman::encode, consumed += rle_out.consumed, and the match on rle_out.raw
EncHuffman ==
    /\ pc = "huffman"
    /\ output' = huffman_encode(output, mtf_and_rle(enc.bwt_out.bwt, enc.bwt_out.has_byte))
    /\ calls' = Append(calls, Part("huffman"))
    /\ blocks' = Append(blocks, [chk |-> enc.rle_out.chk, consumed |-> enc.rle_out.consumed,
                                 output |-> enc.rle_out.output, ptr |-> enc.bwt_out.ptr,
                                 bwt |-> enc.bwt_out.bwt])
    /\ enc' = [enc EXCEPT !.consumed = @ + enc.rle_out.consumed]
    /\ raw' = enc.rle_out.raw.vec
    /\ Goto(output', IF enc.rle_out.raw = None THEN "write_stream_footer" ELSE "rle_one")
    /\ UNCHANGED << overflow_checks, closed, input, level, reader, rle >>

\* write_stream_footer, close and Ok(consumed)
EncReturn ==
    /\ pc = "write_stream_footer"
    /\ output' = close(write_stream_footer(output, enc.stream_crc))
    /\ calls' = Append(calls, Part("write_stream_footer"))
    /\ closed' = TRUE
    /\ enc' = [enc EXCEPT !.ret = enc.consumed]
    /\ Goto(output', "returned")
    /\ UNCHANGED << overflow_checks, input, level, reader, raw, rle, blocks >>

EncNext ==
    \/ EncWriteStreamHeader
    \/ EncRleOne
    \/ EncWriteBlockHeader
    \/ EncWriteSymMap
    \/ EncHuffman
    \/ EncReturn

SpecEncode == EncInit /\ [][EncNext]_vars

(***************************************************************************)
(* The reference decoder: the bzip2 format read back as the reference      *)
(* decompressor reads it.  A stream is the sequence of its bits, the       *)
(* highest bit of each byte first; a position is the number of bits read.  *)
(* Reading past the end yields 0 bits and is found out at the end.         *)
(***************************************************************************)
BitsOf(bytes) ==
    Vec([k \in 1..(8 * Len(bytes)) |->
            (bytes[((k - 1) \div 8) + 1] \div Pow2(7 - ((k - 1) % 8))) % 2])

Bit(bits, k) == IF k <= Len(bits) THEN bits[k] ELSE 0

RECURSIVE ReadBits(_, _, _)
ReadBits(bits, pos, n) ==
    IF n = 0 THEN 0 ELSE 2 * ReadBits(bits, pos, n - 1) + Bit(bits, pos + n)

ReadBytes(bits, pos, n) == Vec([k \in 1..n |-> ReadBits(bits, pos + 8 * (k - 1), 8)])

BlockMagic == << 49, 65, 89, 38, 83, 89 >>

FooterMagic == << 23, 114, 69, 56, 80, 144 >>

\* the symbol map at pos: 16 bits for the sectors, 16 bits for each sector in use
SectorUsed(bits, pos, a) == Bit(bits, pos + a + 1) = 1

SectorsBefore(bits, pos, a) == Cardinality({ c \in 0..(a - 1) : SectorUsed(bits, pos, c) })

\* the bytes of sector a marked in its 16 bits
InSector(bits, pos, a) ==
    { 16 * a + b : b \in { c \in 0..15 : Bit(bits, pos + 16 + 16 * SectorsBefore(bits, pos, a) + c + 1) = 1 } }

InUse(bits, pos) == UNION { InSector(bits, pos, a) : a \in { c \in 0..15 : SectorUsed(bits, pos, c) } }

SymMapBits(bits, pos) == 16 + 16 * SectorsBefore(bits, pos, 16)

\* the bytes in use in increasing order (seqToUnseq)
Ascending(S) == Vec([k \in 1..Cardinality(S) |-> CHOOSE v \in S : Cardinality({ w \in S : w < v }) = k - 1])

\* the number of 1 bits before the first 0 bit, max when there are that many
RECURSIVE Unary(_, _, _)
Unary(bits, pos, max) ==
    IF max = 0 \/ Bit(bits, pos + 1) = 0 THEN 0 ELSE 1 + Unary(bits, pos + 1, max - 1)

MoveToFront(l, j) == << l[j + 1] >> \o SubSeq(l, 1, j) \o SubSeq(l, j + 2, Len(l))

NextSelector(st, j, nGroups) ==
    IF j >= nGroups THEN [st EXCEPT !.ok = FALSE]
    ELSE [pos |-> st.pos + j + 1, ok |-> TRUE, order |-> MoveToFront(st.order, j),
          sels |-> Append(st.sels, st.order[j + 1])]

\* k selectors, each the move-to-front index of its table in unary
RECURSIVE DecSelectors(_, _, _, _)
DecSelectors(bits, nGroups, st, k) ==
    IF k = 0 \/ ~st.ok THEN st
    ELSE DecSelectors(bits, nGroups, NextSelector(st, Unary(bits, st.pos, nGroups), nGroups), k - 1)

\* one code length: 1 bits each followed by 0 for +1 or 1 for -1, then a 0 bit
RECURSIVE DecDelta(_, _, _)
DecDelta(bits, pos, curr) ==
    IF curr < 1 \/ curr > 20 \/ pos > Len(bits) THEN [pos |-> pos, ok |-> FALSE, curr |-> curr]
    ELSE IF Bit(bits, pos + 1) = 0 THEN [pos |-> pos + 1, ok |-> TRUE, curr |-> curr]
    ELSE DecDelta(bits, pos + 2, IF Bit(bits, pos + 2) = 0 THEN curr + 1 ELSE curr - 1)

NextLength(st, d) ==
    [pos |-> d.pos, ok |-> d.ok, curr |-> d.curr, lens |-> Append(st.lens, d.curr)]

RECURSIVE DecLengths(_, _, _)
DecLengths(bits, st, k) ==
    IF k = 0 \/ ~st.ok THEN st
    ELSE DecLengths(bits, NextLength(st, DecDelta(bits, st.pos, st.curr)), k - 1)

NextTable(st, l) == [pos |-> l.pos, ok |-> l.ok, tables |-> Append(st.tables, l.lens)]

\* t tables: a 5-bit starting length, then the lengths of the alphaSize symbols
RECURSIVE DecTables(_, _, _, _)
DecTables(bits, alphaSize, st, t) ==
    IF t = 0 \/ ~st.ok THEN st
    ELSE DecTables(bits, alphaSize,
                   NextTable(st, DecLengths(bits, [pos |-> st.pos + 5, ok |-> TRUE,
                                                   curr |-> ReadBits(bits, st.pos, 5),
                                                   lens |-> << >>], alphaSize)),
                   t - 1)

\* the decoding tables of one table of code lengths: symbols are numbered
\* from 0, codes are given in order of length and then of symbol
MinLenOf(lens) == CHOOSE m \in { lens[j] : j \in 1..Len(lens) } : \A j \in 1..Len(lens) : m <= lens[j]

MaxLenOf(lens) == CHOOSE m \in { lens[j] : j \in 1..Len(lens) } : \A j \in 1..Len(lens) : m >= lens[j]

CountOfLen(lens, i) == Cardinality({ j \in 1..Len(lens) : lens[j] = i })

CountBelow(lens, i) == Cardinality({ j \in 1..Len(lens) : lens[j] < i })

\* the symbol whose code is the k-th, k from 0
PermAt(lens, k) ==
    (CHOOSE j \in 1..Len(lens) :
        Cardinality({ m \in 1..Len(lens) : lens[m] < lens[j] \/ (lens[m] = lens[j] /\ m < j) }) = k) - 1

\* one more than the last code of length i
RECURSIVE CodesEnd(_, _)
CodesEnd(lens, i) ==
    IF i < MinLenOf(lens) THEN 0 ELSE 2 * CodesEnd(lens, i - 1) + CountOfLen(lens, i)

\* the first code of length i less the number of shorter codes
CodeBase(lens, i) == 2 * CodesEnd(lens, i - 1) - CountBelow(lens, i)

\* zvec is the zn bits before pos
RECURSIVE DecCode(_, _, _, _, _)
DecCode(bits, lens, pos, zn, zvec) ==
    IF zn > 20 \/ zn > MaxLenOf(lens) THEN [pos |-> pos, ok |-> FALSE, sym |-> 0]
    ELSE IF zvec <= CodesEnd(lens, zn) - 1
         THEN IF zvec - CodeBase(lens, zn) \in 0..(Len(lens) - 1)
              THEN [pos |-> pos, ok |-> TRUE, sym |-> PermAt(lens, zvec - CodeBase(lens, zn))]
              ELSE [pos |-> pos, ok |-> FALSE, sym |-> 0]
    ELSE DecCode(bits, lens, pos + 1, zn + 1, 2 * zvec + Bit(bits, pos + 1))

DecSym(bits, lens, pos) ==
    DecCode(bits, lens, pos + MinLenOf(lens), MinLenOf(lens), ReadBits(bits, pos, MinLenOf(lens)))

TakeSym(st, c, eob) ==
    IF ~c.ok THEN [st EXCEPT !.ok = FALSE]
    ELSE IF c.sym = eob THEN [st EXCEPT !.pos = c.pos, !.done = TRUE]
    ELSE [st EXCEPT !.pos = c.pos, !.syms = Append(@, c.sym)]

\* the next symbol: every SegmentWidth symbols the next selector names the table
NextSym(bits, tables, sels, eob, st) ==
    IF Len(st.syms) \div SegmentWidth >= Len(sels) \/ st.pos > Len(bits)
    THEN [st EXCEPT !.ok = FALSE]
    ELSE TakeSym(st, DecSym(bits, tables[sels[(Len(st.syms) \div SegmentWidth) + 1] + 1], st.pos), eob)

\* the symbols up to the end-of-block symbol
RECURSIVE DecSyms(_, _, _, _, _)
DecSyms(bits, tables, sels, eob, st) ==
    IF st.done \/ ~st.ok THEN st
    ELSE DecSyms(bits, tables, sels, eob, NextSym(bits, tables, sels, eob, st))

\* a run of es copies of the byte in front
FlushRun(st) == [st EXCEPT !.out = @ \o Rep(st.yy[1], st.es), !.es = 0, !.n = 1]

PutByte(st, j) == [st EXCEPT !.out = Append(@, st.yy[j + 1]), !.yy = MoveToFront(@, j)]

\* symbols 0 and 1 are the digits of a run length, symbol j + 1 is the byte at place j
UnMtfSym(st, sym) ==
    IF sym <= 1 THEN [st EXCEPT !.es = @ + st.n * (sym + 1), !.n = 2 * @]
    ELSE PutByte(FlushRun(st), sym - 1)

RECURSIVE UnMtf(_, _, _)
UnMtf(syms, st, k) ==
    IF k > Len(syms) THEN FlushRun(st)
    ELSE UnMtf(syms, UnMtfSym(st, syms[k]), k + 1)

\* the index of the k-th byte of the last column in sorted order, k from 0
SortedAt(l, k) ==
    CHOOSE i \in 1..Len(l) :
        Cardinality({ j \in 1..Len(l) : l[j] < l[i] \/ (l[j] = l[i] /\ j < i) }) = k

RECURSIVE Follow(_, _, _, _)
Follow(l, t, tpos, n) ==
    IF n = 0 THEN << >> ELSE << l[t[tpos]] >> \o Follow(l, t, t[tpos], n - 1)

\* the block whose last column is l and whose row is origPtr
UnBwtWith(l, t, origPtr) == Follow(l, t, origPtr + 1, Len(l))

UnBwt(l, origPtr) == UnBwtWith(l, Vec([k \in 1..Len(l) |-> SortedAt(l, k - 1)]), origPtr)

\* the number of bytes equal to x[k] from k on, at most 4
EqualFrom(x, k) ==
    IF k + 1 > Len(x) \/ x[k + 1] # x[k] THEN 1
    ELSE IF k + 2 > Len(x) \/ x[k + 2] # x[k] THEN 2
    ELSE IF k + 3 > Len(x) \/ x[k + 3] # x[k] THEN 3
    ELSE 4

Emit(bytes, rest) == [ok |-> rest.ok, out |-> bytes \o rest.out]

\* four equal bytes are followed by the count of the further copies; a block
\* that ends before the count is corrupt
RECURSIVE UnRle1(_, _)
UnRle1(x, k) ==
    IF k > Len(x) THEN [ok |-> TRUE, out |-> << >>]
    ELSE IF EqualFrom(x, k) < 4 THEN Emit(Rep(x[k], EqualFrom(x, k)), UnRle1(x, k + EqualFrom(x, k)))
    ELSE IF k + 4 > Len(x) THEN [ok |-> FALSE, out |-> << >>]
    ELSE Emit(Rep(x[k], 4 + x[k + 4]), UnRle1(x, k + 5))

\* a block: 32-bit CRC, the randomised bit, 24-bit origPtr, the symbol map,
\* the number of tables, the selectors, the tables, the symbols
BadBlock == [ok |-> FALSE, pos |-> 0, data |-> << >>, crc |-> << 0, 0, 0, 0 >>]

DecBlockRle(bits, pos, endpos, r) ==
    IF ~r.ok \/ checksum(r.out) # ReadBytes(bits, pos, 4) THEN BadBlock
    ELSE [ok |-> TRUE, pos |-> endpos, data |-> r.out, crc |-> ReadBytes(bits, pos, 4)]

DecBlockBwt(bits, pos, lv, endpos, l) ==
    IF Len(l) > BlockUnit * lv \/ ReadBits(bits, pos + 33, 24) >= Len(l) THEN BadBlock
    ELSE DecBlockRle(bits, pos, endpos, UnRle1(UnBwt(l, ReadBits(bits, pos + 33, 24)), 1))

DecBlockSyms(bits, pos, lv, unseq, y) ==
    IF ~y.ok THEN BadBlock
    ELSE DecBlockBwt(bits, pos, lv, y.pos,
                     UnMtf(y.syms, [yy |-> unseq, es |-> 0, n |-> 1, out |-> << >>], 1).out)

DecBlockTables(bits, pos, lv, unseq, sels, t) ==
    IF ~t.ok THEN BadBlock
    ELSE DecBlockSyms(bits, pos, lv, unseq,
                      DecSyms(bits, t.tables, sels, Len(unseq) + 1,
                              [pos |-> t.pos, ok |-> TRUE, syms |-> << >>, done |-> FALSE]))

DecBlockSelectors(bits, pos, lv, unseq, nGroups, s) ==
    IF ~s.ok THEN BadBlock
    ELSE DecBlockTables(bits, pos, lv, unseq, s.sels,
                        DecTables(bits, Len(unseq) + 2,
                                  [pos |-> s.pos, ok |-> TRUE, tables |-> << >>], nGroups))

DecBlockGroups(bits, pos, lv, unseq, p, nGroups, nSelectors) ==
    IF unseq = << >> \/ Bit(bits, pos + 33) # 0 \/ nGroups \notin 2..6 \/ nSelectors < 1
    THEN BadBlock
    ELSE DecBlockSelectors(bits, pos, lv, unseq, nGroups,
                           DecSelectors(bits, nGroups,
                                        [pos |-> p + 18, ok |-> TRUE,
                                         order |-> Vec([g \in 1..nGroups |-> g - 1]),
                                         sels |-> << >>],
                                        nSelectors))

DecBlockMap(bits, pos, lv, unseq, p) ==
    DecBlockGroups(bits, pos, lv, unseq, p, ReadBits(bits, p, 3), ReadBits(bits, p + 3, 15))

DecBlock(bits, pos, lv) ==
    DecBlockMap(bits, pos, lv, Ascending(InUse(bits, pos + 57)), pos + 57 + SymMapBits(bits, pos + 57))

\* the combined CRC: rotated left by one bit, then XOR the block's CRC
CombineBits(a, b) == ReadBytes(Vec([k \in 1..32 |-> (a[(k % 32) + 1] + b[k]) % 2]), 0, 4)

CombineCrc(combined, crc) == CombineBits(BitsOf(combined), BitsOf(crc))

AddBlock(st, b) ==
    IF ~b.ok THEN [st EXCEPT !.ok = FALSE]
    ELSE [pos |-> b.pos, ok |-> TRUE, done |-> FALSE, data |-> st.data \o b.data,
          crc |-> CombineCrc(st.crc, b.crc), sizes |-> Append(st.sizes, Len(b.data)),
          crcs |-> Append(st.crcs, b.crc), starts |-> Append(st.starts, st.pos)]

\* the footer: the combined CRC has to be the one computed
Footer(bits, st) ==
    [st EXCEPT !.done = TRUE, !.pos = @ + 80,
               !.ok = ReadBytes(bits, st.pos + 48, 4) = st.crc /\ st.pos + 80 <= Len(bits)]

DecNext(bits, lv, st) ==
    IF ReadBytes(bits, st.pos, 6) = BlockMagic THEN AddBlock(st, DecBlock(bits, st.pos + 48, lv))
    ELSE IF ReadBytes(bits, st.pos, 6) = FooterMagic THEN Footer(bits, st)
    ELSE [st EXCEPT !.ok = FALSE]

RECURSIVE DecBlocks(_, _, _)
DecBlocks(bits, lv, st) ==
    IF st.done \/ ~st.ok THEN st ELSE DecBlocks(bits, lv, DecNext(bits, lv, st))

\* "BZh", the digit of the level, the blocks, the footer
DecStream(bits) ==
    IF Len(bits) < 32 \/ ReadBytes(bits, 0, 3) # << 66, 90, 104 >> \/ ReadBits(bits, 24, 8) - 48 \notin 1..9
    THEN [pos |-> 0, ok |-> FALSE, done |-> FALSE, data |-> << >>, crc |-> << 0, 0, 0, 0 >>,
          sizes |-> << >>, crcs |-> << >>, starts |-> << >>]
    ELSE DecBlocks(bits, ReadBits(bits, 24, 8) - 48,
                   [pos |-> 32, ok |-> TRUE, done |-> FALSE, data |-> << >>,
                    crc |-> << 0, 0, 0, 0 >>, sizes |-> << >>, crcs |-> << >>, starts |-> << >>])

Decode(bytes) == DecStream(BitsOf(bytes))

\* the decoder came to the end of the stream without an error, with the bytes x
ReadsBackAs(d, x) == d.ok /\ d.done /\ d.data = x

RECURSIVE SumConsumed(_, _)
SumConsumed(bs, k) == IF k = 0 THEN 0 ELSE SumConsumed(bs, k - 1) + bs[k].consumed

C3_EmptyInput ==
    (input = << >> /\ level \in Levels /\ pc \in { "returned", "panicked" }) =>
        /\ pc = "returned"
        /\ output.writer = << 66, 90, 104, 48 + level, 23, 114, 69, 56, 80, 144, 0, 0, 0, 0 >>
        /\ blocks = << >>
        /\ Len(calls) = 2
        /\ enc.ret = 0

C3_Witness ==
    /\ pc = "returned"
    /\ input = << >>
    /\ level = 9
    /\ Len(output.writer) = 14
    /\ output.writer[4] = 57
    /\ enc.ret = 0

\* the parts that may follow a part
Follows(op) ==
    CASE op = "write_stream_header" -> { "write_block_header", "write_stream_footer" }
      [] op = "write_block_header" -> { "write_sym_map" }
      [] op = "write_sym_map" -> { "huffman" }
      [] op = "huffman" -> { "write_block_header", "write_stream_footer" }
      [] OTHER -> { }

\* block k of the stream: where its parts start and what they hold
BlockInOrder(bits, d, k, at) ==
    /\ calls[3 * k - 1] = [op |-> "write_block_header", at |-> at]
    /\ d.starts[k] = at
    /\ ReadBytes(bits, at, 6) = BlockMagic
    /\ ReadBytes(bits, at + 48, 4) = blocks[k].chk
    /\ Bit(bits, at + 81) = 0
    /\ ReadBits(bits, at + 81, 24) = blocks[k].ptr
    /\ calls[3 * k] = [op |-> "write_sym_map", at |-> at + 105]
    /\ InUse(bits, at + 105) = Present(blocks[k].output)
    /\ calls[3 * k + 1] = [op |-> "huffman", at |-> at + 105 + SymMapBits(bits, at + 105)]
    /\ calls[3 * k + 2].at = IF k < Len(blocks) THEN d.starts[k + 1] ELSE d.pos - 80

\* the footer at the end of the stream, and after it zero bits up to the next byte
FooterInOrder(bits, at) ==
    /\ calls[Len(calls)] = [op |-> "write_stream_footer", at |-> at]
    /\ ReadBytes(bits, at, 6) = FooterMagic
    /\ ReadBytes(bits, at + 48, 4) = enc.stream_crc
    /\ Len(bits) - (at + 80) \in 0..7
    /\ \A j \in (at + 81)..Len(bits) : bits[j] = 0

StreamInOrder(bits, d) ==
    /\ d.ok
    /\ ReadBytes(bits, 0, 4) = << 66, 90, 104, 48 + level >>
    /\ Len(d.starts) = Len(blocks)
    /\ Len(calls) = 3 * Len(blocks) + 2
    /\ \A k \in 1..Len(blocks) : BlockInOrder(bits, d, k, calls[3 * k - 1].at)
    /\ FooterInOrder(bits, d.pos - 80)

PartsInOrder ==
    /\ calls # << >> => calls[1] = [op |-> "write_stream_header", at |-> 0]
    /\ \A k \in 2..Len(calls) : calls[k].op \in Follows(calls[k - 1].op)
    /\ pc = "returned" => StreamInOrder(BitsOf(output.writer), Decode(output.writer))

\* a step writes at most one part, after what was written, and keeps it
PartsAppended ==
    /\ calls' # calls => \E op \in Follows(IF calls = << >> THEN "" ELSE calls[Len(calls)].op)
                                       \cup (IF calls = << >> THEN { "write_stream_header" } ELSE { }) :
                             calls' = Append(calls, [op |-> op, at |-> BitPos(output)])
    /\ Len(output'.writer) >= Len(output.writer)
    /\ SubSeq(output'.writer, 1, Len(output.writer)) = output.writer
    /\ output' # output => calls' # calls

\* C4: in every run of encode the stream header is written once and first,
\* then for each block in input order the block magic, the 32-bit block CRC,
\* a 0 bit, the 24-bit primary index, the symbol map and the Huffman tables
\* and body, then the footer magic and the combined CRC once, and after the
\* footer only the zero bits that fill the last byte.
C4_StreamOrder == [](PartsInOrder) /\ [][PartsAppended]_vars

\* two blocks or more were written, and close had bits to fill
C4_Witness ==
    /\ pc = "returned"
    /\ Len(blocks) >= 2
    /\ calls[Len(calls)].at % 8 # 0
    /\ calls[5].op = "write_block_header"
    /\ ReadBytes(BitsOf(output.writer), calls[5].at, 6) = BlockMagic

RECURSIVE FoldCrcs(_, _)
FoldCrcs(crcs, k) ==
    IF k = 0 THEN << 0, 0, 0, 0 >> ELSE CombineCrc(FoldCrcs(crcs, k - 1), crcs[k])

\* the CRC of block k as the stream holds it
BlockCrcAt(bits, k) == ReadBytes(bits, calls[3 * k - 1].at + 48, 4)

FooterCrcAt(bits) == ReadBytes(bits, calls[Len(calls)].at + 48, 4)

FooterIsFold(bits) ==
    /\ FooterCrcAt(bits) = FoldCrcs(Vec([k \in 1..Len(blocks) |-> BlockCrcAt(bits, k)]), Len(blocks))
    /\ \A k \in 1..Len(blocks) : BlockCrcAt(bits, k) = blocks[k].chk
    /\ Len(blocks) = 1 => FooterCrcAt(bits) = blocks[1].chk
    /\ Len(blocks) = 0 => FooterCrcAt(bits) = << 0, 0, 0, 0 >>

\* C5: the CRC in the footer is the fold of the block CRCs in block order
\* from 0, each step the block's CRC XOR the value so far rotated left by one
\* bit; with one block it is that block's CRC, with no block it is 0.
C5_FooterCrcIsFold == pc = "returned" => FooterIsFold(BitsOf(output.writer))

RECURSIVE XorCrcs(_, _)
XorCrcs(bs, k) == IF k = 0 THEN << 0, 0, 0, 0 >> ELSE Xor32(XorCrcs(bs, k - 1), bs[k].chk)

\* three blocks or more, and the fold is not the XOR of the block CRCs
C5_Witness ==
    /\ pc = "returned"
    /\ Len(blocks) >= 3
    /\ enc.stream_crc # XorCrcs(blocks, Len(blocks))
    /\ FooterCrcAt(BitsOf(output.writer)) = enc.stream_crc

(***************************************************************************)
(* build_table_from_freqs as a state machine: one call on a frequency      *)
(* vector, `input` holding the vector.                                     *)
(***************************************************************************)
FreqSamples == { 0, 1, 2, 5 }

Doubling(n) == Vec([s \in 1..n |-> Pow2(s - 1)])

FreqVectors ==
    UNION { [1..n -> FreqSamples] : n \in 3..MaxSyms } \cup { Doubling(n) : n \in 3..MaxSkew }

HuffInit ==
    /\ overflow_checks \in BOOLEAN
    /\ output = OutputStreamNew
    /\ calls = << >>
    /\ closed = FALSE
    /\ input \in FreqVectors
    /\ level = 1
    /\ reader = [data |-> << >>, cap |-> 1, errs_after |-> NoErr]
    /\ raw = << >>
    /\ rle = << >>
    /\ blocks = << >>
    /\ enc = << >>
    /\ pc = "build_table"

\* the table of the call and the codewords encode assigns from it
TableOf(table) == [table |-> table, coding |-> coding(table)]

BuildTable ==
    /\ pc = "build_table"
    /\ blocks' = << TableOf(build_table_from_freqs(Len(input), input)) >>
    /\ pc' = "done"
    /\ UNCHANGED << out_vars, enc, input, level, reader, raw, rle >>

HuffNext == BuildTable

SpecHuff == HuffInit /\ [][HuffNext]_vars

\* word a of length m is the beginning of word b of length n
IsPrefix(a, m, b, n) == m <= n /\ b \div Pow2(n - m) = a

PrefixFree(c) ==
    \A s \in 1..Len(c) : \A t \in 1..Len(c) :
        s # t => ~IsPrefix(c[s].word, c[s].word_len, c[t].word, c[t].word_len)

\* the codewords in order of length and then of symbol: the first is 0, the
\* next of the same length is one more, and a longer one is one more shifted
\* left by the difference of the lengths
Canonical(c) ==
    \A s \in 1..Len(c) :
        LET before == { t \in 1..Len(c) : c[t].word_len < c[s].word_len
                                           \/ (c[t].word_len = c[s].word_len /\ t < s) }
        IN  IF before = { } THEN c[s].word = 0
            ELSE \E t \in before :
                    /\ \A u \in before : c[u].word_len < c[t].word_len
                                             \/ (c[u].word_len = c[t].word_len /\ u <= t)
                    /\ c[s].word = (c[t].word + 1) * Pow2(c[s].word_len - c[t].word_len)

\* C11: every table build_table_from_freqs returns has one length for each
\* symbol, each between 1 and 17, and the codewords assigned from the lengths
\* are canonical, fit their lengths and are pairwise prefix-free.
C11_TableIsPrefixCode ==
    pc = "done" =>
        /\ Len(blocks[1].table) = Len(input)
        /\ \A s \in 1..Len(input) : blocks[1].table[s] \in 1..CODEWORD_MAX_LEN
        /\ \A s \in 1..Len(input) :
              /\ blocks[1].coding[s].word_len = blocks[1].table[s]
              /\ blocks[1].coding[s].word \in 0..(Pow2(blocks[1].table[s]) - 1)
        /\ Canonical(blocks[1].coding)
        /\ PrefixFree(blocks[1].coding)

\* a chain of more than CODEWORD_MAX_LEN + 1 symbols was rescaled to a table
\* whose longest codeword has 17 bits or fewer
C11_Witness ==
    /\ pc = "done"
    /\ Len(input) > CODEWORD_MAX_LEN + 1
    /\ table_max_len(coding_lengths(tie_loop(with_n_leaves(Len(input)),
                                             queue_new(<< >>, Len(input), input, 1))),
                     Len(input)) > CODEWORD_MAX_LEN
    /\ \A s \in 1..Len(input) : blocks[1].table[s] \in 1..CODEWORD_MAX_LEN
    /\ \E s \in 1..Len(input) : blocks[1].table[s] > 8

(***************************************************************************)
(* The primary index.                                                      *)
(***************************************************************************)
\* the 24 bits of the block header read as a number
PtrField(ptr) == ptr_bytes(ptr)[1] * 65536 + ptr_bytes(ptr)[2] * 256 + ptr_bytes(ptr)[3]

\* C12: for every block of n >= 1 bytes the primary index returned by bwt is a
\* row index, 0 <= primary_index < n, counted from 0, and the 24-bit field of
\* the block header holds it whole.
C12_PtrIsRowIndex ==
    (pc = "done" /\ Len(input) >= 1) =>
        /\ blocks[1].ok
        /\ 0 <= blocks[1].ptr
        /\ blocks[1].ptr < Len(input)
        /\ PtrField(blocks[1].ptr) = blocks[1].ptr

\* a block of several bytes that is the first of its rotations in order: its
\* primary index is 0
C12_Witness ==
    /\ pc = "done"
    /\ Len(input) >= 3
    /\ blocks[1].ok
    /\ blocks[1].ptr = 0
    /\ \A k \in 1..Len(input) : ~LexLess(Rot(input, k), input)

\* the statement with the lower bound 1: violated by the blocks whose primary
\* index is 0, among them every block of one byte
C12_PtrAtLeastOne ==
    (pc = "done" /\ Len(input) >= 1) =>
        /\ 1 <= blocks[1].ptr
        /\ blocks[1].ptr < Len(input)

(***************************************************************************)
(* The alphabet of the MTF output.                                         *)
(***************************************************************************)
\* the symbols before the last are RUNA, RUNB or 2..k, the last is EOB = k + 1
EndsInEob(out, k) ==
    /\ out # << >>
    /\ out[Len(out)] = k + 1
    /\ \A i \in 1..(Len(out) - 1) : out[i] \in { 0, 1 } \cup 2..k
    /\ Cardinality({ i \in 1..Len(out) : out[i] = k + 1 }) = 1

\* C13: for every buffer with k >= 1 present byte values the output of
\* mtf_and_rle ends in EOB = k + 1, which occurs exactly once, every earlier
\* symbol is RUNA, RUNB or in 2..k, and num_syms = k + 2.
C13_OutputEndsInEob ==
    (pc = "done" /\ input # << >>) =>
        /\ blocks[1].ok
        /\ EndsInEob(blocks[1].output, Cardinality(Present(input)))
        /\ blocks[1].num_syms = Cardinality(Present(input)) + 2
        /\ blocks[1].freqs[Cardinality(Present(input)) + 2] = 1

\* all 256 byte values are present: EOB is 257, and the symbol before it is 256
C13_Witness ==
    /\ pc = "done"
    /\ input = every_byte
    /\ blocks[1].ok
    /\ blocks[1].num_syms = 258
    /\ blocks[1].output[Len(blocks[1].output)] = 257
    /\ blocks[1].output[Len(blocks[1].output) - 1] = 256

(***************************************************************************)
(* encode over a reader whose reads can fail: fill_buf returns Err after a *)
(* given number of reads that succeeded.                                   *)
(***************************************************************************)
\* the reads that succeed before one fails; NoErr for a reader that never fails
ErrsAfter == { NoErr } \cup 0..MaxLen

IoInit ==
    /\ overflow_checks \in BOOLEAN
    /\ output = OutputStreamNew
    /\ calls = << >>
    /\ closed = FALSE
    /\ input \in SeqsUpTo({ 0, 1 }, MaxLen)
    /\ level \in { 1, 2 }
    /\ \E cap \in { 1, 4 }, e \in ErrsAfter :
           reader = [data |-> input, cap |-> cap, errs_after |-> e]
    /\ raw = << >>
    /\ rle = << >>
    /\ blocks = << >>
    /\ enc = [stream_crc |-> U32(0), consumed |-> 0, rle_out |-> << >>, bwt_out |-> << >>,
              ret |-> -1]
    /\ pc = "write_stream_header"

SpecIo == IoInit /\ [][EncNext]_vars

\* C14: when a read from the reader fails with an I/O error, in the initial
\* fill or in a look-ahead refill of rle_one, encode returns that error to its
\* caller and does not panic.  With levels 1..9 nothing else in encode panics,
\* so the statement is that encode never panics.
C14_ReaderErrorIsReturned == pc # "panicked"

\* the panics of SpecIo are those of a failed read, and a reader that never
\* fails is encoded to the end
C14_PanicIsTheFailedRead == pc = "panicked" => reader.errs_after = 0

\* a read failed in a refill, after the initial fill of the call succeeded
C14_RefillFailed ==
    /\ pc = "panicked"
    /\ reader.errs_after = 0
    /\ Len(reader.data) < Len(input)
    /\ blocks = << >>

(***************************************************************************)
(* The input that ends where the block becomes full.                       *)
(***************************************************************************)
\* the RLE1 encoding of the whole input has exactly max_len bytes
ExactFit == level \in 1..9 /\ Len(RefRle1(input)) = max_len(level)

\* the block headers written so far
BlockHeaders == { k \in 1..Len(calls) : calls[k].op = "write_block_header" }

\* C15: when the input ends exactly where the block becomes full, encode emits
\* exactly one block: rle_one reports consumed = input length and no
\* remainder, it is not called again, and no second block is written.
C15_ExactFitIsOneBlock ==
    ExactFit =>
        /\ Len(blocks) <= 1
        /\ Cardinality(BlockHeaders) <= 1
        /\ enc.rle_out # << >> =>
              /\ enc.rle_out.consumed = Len(input)
              /\ enc.rle_out.output = RefRle1(input)
              /\ enc.rle_out.raw = None
        /\ Len(blocks) = 1 => pc \in { "write_stream_footer", "returned" }
        /\ pc = "returned" =>
              /\ Len(blocks) = 1
              /\ Cardinality(BlockHeaders) = 1
              /\ enc.ret = Len(input)
              /\ Len(Decode(output.writer).sizes) = 1

\* the count byte of a run was the last byte of the block and of the input
C15_Witness ==
    /\ ExactFit
    /\ pc = "returned"
    /\ Len(blocks) = 1
    /\ Len(input) >= 4
    /\ blocks[1].output = Rep(input[1], 4) \o << Len(input) - 4 >>
    /\ Len(blocks[1].output) = max_len(level)

(***************************************************************************)
(* The input of one byte value repeated.                                   *)
(***************************************************************************)
OneValue(s) == \A k \in 1..Len(s) : s[k] = s[1]

\* RUNA and RUNB only, then EOB
RunsThenEob(m) ==
    /\ m.ok
    /\ m.output # << >>
    /\ m.output[Len(m.output)] = m.num_syms - 1
    /\ \A i \in 1..(Len(m.output) - 1) : m.output[i] \in { 0, 1 }

\* the block in hand is the output of mtf_and_rle that huffman::encode is given
MtfInHand == mtf_and_rle(enc.bwt_out.bwt, enc.bwt_out.has_byte)

RepeatedByteBlock == pc = "huffman" /\ Len(input) >= 1 /\ OneValue(input)

\* C16 as stated: for every input of one byte value repeated the MTF output of
\* the block is RUNA and RUNB symbols followed by EOB.
C16_RepeatedByteIsRuns == RepeatedByteBlock => RunsThenEob(MtfInHand)

\* C16: for an input of one byte value repeated, the first block is a prefix
\* of the reference RLE1 encoding, runs of four followed by their count byte;
\* the MTF output of a block is RUNA and RUNB followed by EOB exactly when the
\* block holds one byte value, which it does for inputs of up to three bytes
\* and when every count byte in the block equals the repeated byte.
C16_OneValueBlockIsRuns ==
    RepeatedByteBlock =>
        /\ RunsThenEob(MtfInHand) <=> OneValue(enc.rle_out.output)
        /\ Len(input) <= 3 => OneValue(enc.rle_out.output)
        /\ blocks = << >> =>
              enc.rle_out.output = SubSeq(RefRle1(input), 1, Len(enc.rle_out.output))

\* a run of 255s with its count byte: the MTF output has a symbol that is
\* neither RUNA nor RUNB before EOB
C16_Witness ==
    /\ RepeatedByteBlock
    /\ Len(input) >= 4
    /\ enc.rle_out.output = Rep(255, 4) \o << Len(input) - 4 >>
    /\ \E i \in 1..(Len(MtfInHand.output) - 1) : MtfInHand.output[i] >= 2

\* a run of zeroes whose count byte is zero: RUNA and RUNB only
C16_ZeroRunWitness ==
    /\ RepeatedByteBlock
    /\ enc.rle_out.output = Rep(0, 5)
    /\ RunsThenEob(MtfInHand)

(***************************************************************************)
(* sais as a state machine: the calls of sais that bwt makes on a block,   *)
(* the one on the reduced problem of the doubled block and those that this *)
(* call makes in turn on its own reduced problems.                         *)
(***************************************************************************)
NoCall == [called |-> FALSE, sigma_size |-> 0, data |-> << >>]

\* if new_sigma_size != lms_count { sais(new_sigma_size, rdata, rsa, buckets) }
call_of(e) ==
    IF e.ok /\ e.rword + 1 # e.lms_count
    THEN [called |-> TRUE, sigma_size |-> e.rword + 1,
          data |-> SubSeq(e.sa, Len(e.sa) - e.lms_count + 1, Len(e.sa))]
    ELSE NoCall

\* the call of sais made for data after its LMS-suffixes were inserted, if any
sais_call(data, st) ==
    IF ~st.ok \/ st.lms_count <= 1 THEN NoCall
    ELSE call_of(encode_reduced(data,
                                induced_sort_bck(data, induced_sort_fwd(data, st, TRUE),
                                                 TRUE, FALSE).sa))

\* the call made by bwt on concat(block, block) or by sais on its data
call_from(data, sigma_size) ==
    sais_call(data, count_checked(insert_lms(data, Zeros(Len(data)), build(data, sigma_size))))

SaisInit ==
    /\ overflow_checks \in BOOLEAN
    /\ output = OutputStreamNew
    /\ calls = << >>
    /\ closed = FALSE
    /\ input \in { s \in BwtInputs : Len(s) >= 2 }
    /\ level = 1
    /\ reader = [data |-> << >>, cap |-> 1, errs_after |-> NoErr]
    /\ raw = << >>
    /\ rle = << >>
    /\ blocks = << >>
    /\ enc = NoCall
    /\ pc = "bwt"

\* bwt as far as its call of sais
SaisReduce ==
    /\ pc = "bwt"
    /\ enc' = call_from(input \o input, 256)
    /\ pc' = IF enc'.called THEN "sais" ELSE "done"
    /\ UNCHANGED << out_vars, input, level, reader, raw, rle, blocks >>

\* one call of sais, and the call it made itself
Sais ==
    /\ pc = "sais"
    /\ blocks' = Append(blocks,
                        [data |-> enc.data,
                         sorted |-> sais(enc.sigma_size, enc.data, Zeros(Len(enc.data)),
                                         build(enc.data, enc.sigma_size))])
    /\ enc' = call_from(enc.data, enc.sigma_size)
    /\ pc' = IF enc'.called THEN "sais" ELSE "done"
    /\ UNCHANGED << out_vars, input, level, reader, raw, rle >>

SaisNext == SaisReduce \/ Sais

SpecSais == SaisInit /\ [][SaisNext]_vars

\* the suffix of s that starts at s[i], i counted from 0
Suffix(s, i) == SubSeq(s, i + 1, Len(s))

\* a is lexicographically at most b; a prefix of b is at most b
LexLeq(a, b) ==
    \/ \E j \in 1..Min(Len(a), Len(b)) : a[j] < b[j] /\ \A m \in 1..(j - 1) : a[m] = b[m]
    \/ Len(a) <= Len(b) /\ \A m \in 1..Len(a) : a[m] = b[m]

IsSuffixArray(s, sa) ==
    /\ Len(sa) = Len(s)
    /\ { sa[p] : p \in 1..Len(sa) } = 0..(Len(s) - 1)
    /\ \A p \in 1..(Len(sa) - 1) : LexLeq(Suffix(s, sa[p]), Suffix(s, sa[p + 1]))

\* C17: after every call of sais on a string of length n >= 2, sa[0..n) is a
\* permutation of [0, n) and for every consecutive pair the suffix at sa[i] is
\* lexicographically at most the suffix at sa[i+1].
C17_SaisSortsSuffixes ==
    \A k \in 1..Len(blocks) :
        /\ Len(blocks[k].data) >= 2
        /\ blocks[k].sorted.ok
        /\ IsSuffixArray(blocks[k].data, blocks[k].sorted.sa)

\* a call of sais that itself called sais
C17_Witness ==
    /\ Len(blocks) >= 2
    /\ Len(blocks[1].data) >= 4
    /\ IsSuffixArray(blocks[1].data, blocks[1].sorted.sa)
    /\ IsSuffixArray(blocks[2].data, blocks[2].sorted.sa)

(***************************************************************************)
(* The output of rle_one read back.                                        *)
(***************************************************************************)
\* input[lo..hi), the bytes that block k of bs stands for
ConsumedBy(bs, k) == SubSeq(input, SumConsumed(bs, k - 1) + 1, SumConsumed(bs, k))

DecodesTo(r, bytes) == r.ok /\ r.out = bytes

\* C18: for every input and every block bound, also when the block fills in
\* the middle of a run, RLE1-decoding the output of rle_one yields exactly the
\* bytes the call consumed: the output never ends with four equal bytes that
\* lack their count byte, and consumed counts exactly the bytes represented.
C18_OutputDecodesToConsumed ==
    \A k \in 1..Len(blocks) :
        /\ ~blocks[k].overrun
        /\ ~blocks[k].oob
        /\ SumConsumed(blocks, k) <= Len(input)
        /\ DecodesTo(UnRle1(blocks[k].output, 1), ConsumedBy(blocks, k))

\* the block filled in the middle of a run: it ends with three copies of the
\* byte that the next call starts with
C18_Witness ==
    /\ Len(blocks) >= 2
    /\ Len(blocks[1].output) = max_len(level)
    /\ Len(blocks[1].output) >= 5
    /\ blocks[1].output[Len(blocks[1].output)] = input[blocks[1].consumed + 1]
    /\ blocks[1].output[Len(blocks[1].output) - 1] = input[blocks[1].consumed + 1]
    /\ blocks[1].output[Len(blocks[1].output) - 2] = input[blocks[1].consumed + 1]
    /\ DecodesTo(UnRle1(blocks[1].output, 1), ConsumedBy(blocks, 1))
    /\ DecodesTo(UnRle1(blocks[2].output, 1), ConsumedBy(blocks, 2))

(***************************************************************************)
(* The last call of the bit sink, after calls that kept to their widths.   *)
(***************************************************************************)
LastCall == calls[Len(calls)]

\* the stream is open, and every call before the last kept to the narrow contract
AfterNarrowCalls(op) ==
    /\ ~closed
    /\ Len(calls) >= 1
    /\ LastCall.op = op
    /\ \A i \in 1..(Len(calls) - 1) : NarrowContract(calls[i])

\* the top 32 - k bits of the value are zero
FitsWidth(c) == \A j \in 1..(32 - c.num_bits) : BytesBits(c.value)[j] = 0

\* C19: write_bits(value, k) with 1 <= k <= 8 appends only the low k bits of
\* value, for every 8-bit value including those with bits set at or above
\* position k: the bits already buffered and the byte emitted to the sink
\* are not changed by those higher bits.
C19_OnlyLowBitsAppended ==
    (AfterNarrowCalls("write_bits") /\ 1 <= LastCall.num_bits /\ LastCall.num_bits <= 8) =>
        /\ ~output.panicked
        /\ HeldBits(output) = Submitted(calls)

\* C20: write_bits_u32(value, k) appends the low k bits of value for every k
\* in 0..32, and no index computation underflows or leaves its range for any
\* such k, k = 32 and the multiples of 8 included; stated for the values
\* that fit in k bits.
C20_EveryWidthIsWritten ==
    (AfterNarrowCalls("write_bits_u32") /\ FitsWidth(LastCall)) =>
        /\ ~output.panicked
        /\ HeldBits(output) = Submitted(calls)

\* the same for k in 0..31
C20_BelowFullWidthIsWritten ==
    (AfterNarrowCalls("write_bits_u32") /\ FitsWidth(LastCall) /\ LastCall.num_bits < 32) =>
        /\ ~output.panicked
        /\ HeldBits(output) = Submitted(calls)

(***************************************************************************)
(* The raw ranges of the blocks of one encode call.                        *)
(***************************************************************************)
\* the input from the end of the last block on
Unconsumed == SubSeq(input, SumConsumed(blocks, Len(blocks)) + 1, Len(input))

HeaderCrcsAre(d, bs) ==
    /\ d.ok
    /\ Len(d.crcs) = Len(bs)
    /\ \A k \in 1..Len(bs) : d.crcs[k] = bs[k].chk

Thrice == { s \o s \o s : s \in [1..3 -> Alphabet] }

\* a block of 768 bytes, every byte value three times and no run of four, whose
\* transform is three descending sweeps of the byte values but for 15 swaps
\* of neighbours: nearly every byte is last in the recency list when it comes
skewed_all_bytes ==
    << 0, 85, 56, 237, 6, 83, 57, 151, 120, 45, 70, 61, 235, 92, 54, 152, 119, 216, 13, 80, 229, 8,
       253, 0, 255, 170, 199, 18, 249, 172, 198, 104, 135, 210, 185, 194, 20, 164, 30, 160, 117,
       46, 69, 233, 7, 168, 29, 75, 145, 122, 44, 155, 204, 17, 79, 144, 37, 72, 232, 7, 253, 86,
       56, 151, 205, 102, 51, 68, 62, 149, 206, 16, 165, 30, 75, 60, 65, 63, 149, 120, 215, 184,
       23, 248, 2, 169, 199, 104, 50, 153, 204, 187, 193, 106, 49, 239, 90, 225, 180, 195, 190,
       192, 106, 135, 40, 71, 231, 178, 196, 105, 50, 68, 147, 206, 187, 22, 248, 87, 226, 180,
       110, 133, 211, 100, 51, 238, 176, 111, 218, 182, 195, 20, 78, 144, 122, 129, 212, 185, 23,
       162, 201, 188, 193, 20, 249, 2, 84, 142, 123, 44, 70, 147, 36, 73, 60, 235, 177, 111, 133,
       126, 43, 70, 232, 93, 54, 67, 62, 235, 6, 253, 171, 113, 132, 211, 185, 108, 219, 183, 24,
       77, 59, 150, 205, 187, 108, 49, 68, 232, 178, 111, 48, 69, 62, 64, 149, 35, 158, 203, 17,
       164, 201, 18, 79, 58, 236, 91, 225, 95, 138, 209, 100, 222, 96, 138, 124, 129, 42, 71, 61,
       150, 35, 73, 146, 36, 158, 117, 216, 183, 194, 191, 21, 163, 116, 46, 155, 33, 74, 60, 150,
       120, 130, 127, 42, 241, 175, 112, 47, 240, 5, 83, 142, 208, 101, 51, 153, 119, 130, 212, 99,
       222, 181, 195, 105, 135, 125, 128, 213, 14, 80, 143, 208, 15, 165, 115, 132, 41, 71, 146,
       207, 16, 79, 229, 94, 53, 238, 5, 254, 0, 170, 113, 218, 12, 166, 115, 46, 240, 90, 140,
       123, 214, 184, 109, 48, 239, 176, 26, 161, 202, 17, 250, 1, 255, 85, 141, 208, 186, 108,
       134, 125, 214, 13, 251, 86, 227, 9, 167, 114, 217, 183, 109, 134, 40, 157, 32, 245, 3, 169,
       114, 47, 69, 147, 121, 130, 41, 242, 4, 169, 28, 246, 88, 141, 38, 72, 146, 121, 215, 98,
       223, 10, 252, 86, 142, 37, 243, 89, 140, 209, 15, 250, 172, 113, 47, 154, 204, 102, 136,
       125, 43, 156, 33, 159, 117, 131, 212, 14, 165, 200, 189, 21, 248, 173, 27, 161, 116, 217,
       12, 251, 172, 27, 246, 173, 198, 19, 78, 229, 179, 110, 219, 12, 81, 143, 122, 215, 13, 166,
       29, 246, 3, 84, 57, 66, 63, 64, 63, 234, 177, 196, 190, 107, 49, 154, 33, 244, 174, 112,
       133, 40, 242, 89, 226, 9, 252, 171, 198, 189, 192, 191, 192, 21, 78, 59, 65, 148, 206, 101,
       222, 11, 81, 58, 65, 234, 7, 82, 228, 94, 139, 38, 243, 4, 83, 228, 9, 82, 57, 236, 177, 26,
       76, 145, 36, 243, 174, 197, 190, 22, 163, 30, 245, 174, 27, 76, 59, 236, 6, 168, 114, 132,
       126, 128, 127, 213, 99, 137, 124, 214, 99, 52, 67, 233, 92, 225, 10, 81, 228, 179, 196, 19,
       249, 87, 141, 123, 129, 127, 128, 42, 156, 118, 131, 41, 156, 203, 188, 22, 77, 230, 8, 167,
       199, 189, 107, 134, 211, 14, 251, 1, 170, 28, 161, 31, 160, 31, 245, 88, 226, 95, 53, 152,
       205, 16, 250, 87, 56, 66, 148, 121, 44, 241, 4, 254, 85, 227, 180, 25, 76, 230, 93, 224,
       181, 24, 247, 173, 112, 218, 97, 223, 96, 53, 67, 148, 35, 244, 89, 55, 152, 34, 159, 32,
       74, 145, 207, 101, 136, 210, 100, 137, 39, 157, 118, 45, 240, 175, 197, 104, 221, 11, 166,
       200, 103, 221, 96, 223, 181, 110, 48, 154, 119, 45, 155, 118, 216, 98, 137, 210, 15, 80, 58,
       151, 34, 244, 3, 254, 171, 28, 75, 230, 179, 25, 162, 31, 74, 231, 8, 82, 143, 37, 158, 32,
       159, 202, 188, 107, 220, 11, 252, 1, 84, 227, 94, 224, 95, 224, 10, 167, 29, 160, 202, 103,
       50, 239, 5, 168, 200, 18, 164, 115, 217, 98, 52, 153, 34, 73, 231, 93, 139, 124, 43, 241,
       90, 55, 66, 233, 178, 25, 247, 88, 55, 237, 91, 140, 38, 157, 203, 102, 221, 182, 24, 162,
       116, 131, 126, 213, 184, 194, 105, 220, 182, 109, 219, 97, 138, 39, 72, 61, 64, 234, 92,
       139, 209, 186, 23, 77, 144, 207, 186, 193, 191, 106, 220, 97, 52, 238, 91, 54, 237, 176,
       197, 19, 163, 201, 103, 136, 39, 242, 175, 26, 247, 2, 255 >>

\* the like with the 198 byte values 0..197: 594 bytes, 200 symbols, three tables
skewed_198_bytes ==
    << 0, 65, 176, 7, 63, 110, 161, 12, 62, 45, 50, 181, 5, 130, 22, 124, 90, 101, 164, 11, 61,
       177, 6, 195, 132, 153, 146, 149, 16, 60, 111, 160, 144, 83, 170, 9, 62, 177, 72, 107, 162,
       11, 194, 1, 65, 110, 29, 56, 113, 28, 56, 47, 50, 49, 49, 115, 93, 100, 164, 77, 40, 52,
       114, 93, 167, 10, 62, 111, 28, 188, 69, 42, 183, 136, 152, 81, 38, 185, 4, 64, 110, 95, 34,
       54, 113, 160, 12, 127, 155, 80, 39, 52, 180, 71, 174, 7, 195, 66, 175, 139, 85, 103, 31,
       121, 91, 101, 98, 33, 54, 179, 138, 19, 191, 68, 43, 51, 114, 159, 144, 149, 148, 16, 126,
       89, 168, 9, 194, 133, 21, 124, 156, 79, 171, 74, 173, 8, 63, 44, 183, 4, 196, 66, 109, 161,
       78, 39, 184, 136, 86, 103, 97, 99, 98, 165, 10, 194, 67, 43, 117, 92, 166, 142, 84, 103,
       163, 77, 106, 30, 121, 157, 79, 105, 96, 165, 142, 150, 81, 170, 141, 18, 191, 134, 21, 58,
       178, 72, 173, 140, 19, 59, 178, 6, 129, 154, 146, 83, 38, 53, 114, 27, 188, 135, 20, 191, 2,
       65, 44, 51, 48, 181, 137, 86, 37, 53, 180, 5, 196, 0, 131, 154, 14, 127, 23, 124, 24, 123,
       90, 167, 142, 18, 125, 156, 13, 193, 67, 109, 95, 100, 32, 121, 25, 123, 156, 145, 149, 82,
       38, 118, 158, 79, 39, 119, 26, 57, 46, 182, 71, 42, 51, 180, 137, 152, 15, 60, 177, 138,
       151, 147, 82, 170, 75, 40, 184, 70, 108, 95, 166, 10, 128, 89, 36, 53, 48, 49, 181, 71, 108,
       30, 55, 179, 72, 41, 184, 4, 130, 88, 102, 97, 165, 76, 172, 74, 107, 29, 188, 3, 64, 176,
       73, 41, 118, 26, 123, 24, 190, 2, 131, 22, 58, 46, 116, 93, 34, 186, 69, 174, 139, 151, 81,
       104, 163, 11, 128, 23, 58, 112, 94, 100, 98, 99, 32, 187, 3, 130, 154, 80, 105, 30, 187,
       135, 86, 169, 9, 128, 155, 14, 61, 45, 116, 159, 12, 193, 133, 153, 80, 171, 8, 195, 0, 197,
       132, 21, 190, 134, 87, 36, 185, 136, 20, 125, 24, 57, 178, 138, 85, 169, 141, 84, 169, 75,
       106, 162, 77, 172, 8, 129, 22, 190, 68, 109, 29, 122, 25, 57, 112, 160, 78, 105, 162, 143,
       150, 15, 192, 133, 87, 102, 163, 143, 84, 37, 185, 70, 42, 117, 158, 145, 17, 60, 45, 182,
       137, 20, 59, 46, 50, 115, 27, 122, 157, 13, 127, 89, 102, 31, 187, 69, 108, 161, 144, 17,
       192, 1, 197, 66, 43, 183, 70, 174, 73, 173, 74, 41, 52, 48, 115, 159, 78, 171, 140, 151, 15,
       126, 155, 146, 17, 126, 23, 189, 134, 153, 14, 193, 1, 131, 88, 36, 119, 158, 13, 61, 111,
       94, 166, 76, 106, 96, 33, 186, 135, 152, 147, 16, 192, 67, 175, 73, 107, 96, 99, 164, 143,
       18, 59, 112, 28, 122, 91, 35, 120, 25, 189, 68, 175, 7, 129, 88, 168, 75, 172, 140, 85, 37,
       119, 92, 35, 54, 47, 182, 5, 64, 44, 117, 27, 56, 179, 6, 63, 176, 139, 19, 125, 90, 35,
       186, 3, 196, 132, 87, 168, 141, 150, 147, 148, 148, 82, 104, 97, 33, 120, 157, 145, 83, 104,
       31, 55, 113, 94, 34, 120, 91, 167, 76, 40, 118, 92, 101, 32, 55, 47, 116, 26, 189, 2, 197 >>

\* what bwt makes of skewed_all_bytes, its ptr being 0
skewed_all_bytes_bwt ==
    << 255, 254, 253, 252, 251, 250, 249, 248, 247, 246, 245, 244, 243, 242, 241, 240, 239, 238,
       237, 236, 235, 234, 233, 232, 231, 230, 229, 228, 227, 226, 225, 224, 223, 222, 221, 220,
       219, 218, 217, 216, 215, 214, 213, 212, 211, 210, 208, 209, 207, 206, 205, 204, 203, 202,
       201, 200, 199, 198, 197, 196, 195, 194, 193, 192, 191, 189, 188, 190, 187, 186, 185, 184,
       183, 182, 181, 180, 179, 178, 177, 176, 175, 174, 173, 172, 171, 170, 169, 168, 167, 166,
       165, 164, 163, 162, 161, 160, 159, 158, 157, 155, 156, 154, 153, 152, 151, 150, 149, 148,
       147, 146, 145, 144, 143, 142, 141, 140, 139, 138, 137, 136, 135, 134, 133, 132, 131, 130,
       129, 128, 127, 126, 125, 124, 123, 122, 121, 120, 119, 118, 117, 116, 115, 114, 113, 112,
       111, 110, 109, 108, 107, 106, 105, 104, 103, 102, 101, 100, 99, 98, 97, 96, 95, 94, 93,
       92, 91, 90, 89, 88, 87, 86, 85, 84, 83, 82, 81, 80, 79, 78, 77, 76, 75, 74, 73, 72, 71,
       70, 69, 68, 67, 66, 65, 64, 63, 62, 61, 60, 59, 58, 57, 56, 55, 54, 53, 52, 51, 50, 49,
       48, 47, 46, 45, 44, 43, 42, 41, 40, 39, 38, 37, 36, 35, 34, 33, 32, 31, 30, 29, 28, 27,
       26, 25, 24, 23, 22, 21, 20, 19, 18, 17, 16, 15, 14, 13, 11, 12, 10, 9, 8, 7, 6, 5, 4, 3,
       2, 1, 0, 255, 254, 253, 252, 251, 250, 249, 248, 247, 246, 245, 244, 243, 242, 241, 240,
       239, 238, 237, 236, 235, 234, 233, 232, 231, 230, 229, 228, 227, 226, 225, 224, 223, 222,
       221, 220, 219, 218, 217, 216, 215, 214, 213, 212, 211, 210, 209, 208, 207, 206, 205, 204,
       203, 202, 201, 200, 199, 198, 197, 196, 195, 194, 193, 192, 191, 190, 189, 188, 187, 186,
       185, 184, 183, 182, 181, 180, 179, 178, 177, 176, 175, 174, 173, 172, 171, 170, 169, 168,
       167, 166, 165, 164, 163, 162, 161, 160, 159, 158, 157, 156, 155, 154, 153, 152, 151, 150,
       149, 148, 147, 146, 145, 144, 143, 142, 141, 140, 139, 138, 137, 136, 135, 134, 133, 132,
       131, 130, 129, 128, 127, 126, 125, 124, 123, 122, 121, 120, 119, 118, 116, 117, 115, 114,
       113, 112, 111, 110, 109, 108, 107, 106, 105, 104, 103, 102, 101, 100, 99, 98, 97, 96, 95,
       94, 93, 92, 91, 90, 89, 88, 87, 85, 86, 84, 83, 82, 81, 80, 79, 78, 77, 76, 75, 74, 73,
       72, 71, 70, 69, 68, 67, 66, 65, 64, 63, 62, 61, 60, 59, 58, 57, 56, 55, 54, 53, 52, 51,
       50, 49, 48, 47, 46, 45, 44, 43, 42, 41, 40, 39, 38, 37, 36, 35, 34, 33, 32, 31, 30, 29,
       28, 27, 26, 25, 24, 23, 22, 21, 19, 20, 18, 17, 16, 15, 14, 13, 12, 11, 10, 9, 8, 7, 6,
       5, 4, 3, 2, 1, 0, 255, 254, 253, 252, 251, 250, 249, 248, 247, 246, 245, 244, 243, 242,
       241, 240, 239, 238, 237, 236, 235, 234, 233, 232, 231, 230, 229, 228, 227, 226, 225, 224,
       223, 222, 221, 220, 218, 219, 217, 216, 215, 214, 213, 212, 211, 210, 209, 208, 207, 206,
       205, 204, 203, 202, 201, 200, 199, 198, 197, 196, 195, 194, 193, 192, 191, 190, 189, 188,
       187, 186, 185, 184, 183, 182, 181, 180, 179, 178, 177, 176, 175, 174, 173, 172, 171, 170,
       169, 167, 168, 166, 165, 164, 163, 162, 161, 160, 159, 158, 157, 156, 155, 154, 153, 152,
       151, 150, 149, 148, 147, 146, 145, 144, 143, 142, 141, 140, 138, 139, 137, 136, 135, 134,
       133, 132, 131, 130, 129, 128, 127, 126, 125, 124, 123, 122, 121, 120, 119, 118, 117, 116,
       115, 114, 113, 112, 111, 110, 109, 108, 107, 106, 105, 104, 103, 102, 101, 100, 99, 98,
       97, 96, 95, 94, 93, 92, 91, 90, 89, 88, 87, 86, 84, 85, 83, 82, 81, 80, 79, 78, 77, 76,
       75, 74, 73, 71, 72, 70, 68, 69, 67, 66, 65, 64, 63, 62, 61, 60, 59, 58, 57, 56, 55, 54,
       53, 52, 51, 50, 49, 48, 47, 46, 45, 44, 43, 42, 41, 40, 39, 38, 37, 36, 34, 35, 33, 32,
       31, 30, 29, 28, 27, 26, 25, 24, 23, 22, 21, 20, 19, 18, 17, 16, 15, 14, 13, 12, 11, 10,
       9, 8, 7, 6, 5, 4, 3, 2, 1, 0 >>

\* what bwt makes of skewed_198_bytes, its ptr being 0
skewed_198_bytes_bwt ==
    << 197, 196, 195, 194, 193, 192, 191, 190, 189, 188, 187, 186, 185, 184, 183, 182, 181, 180,
       179, 178, 177, 176, 175, 174, 173, 172, 171, 170, 169, 168, 167, 166, 165, 164, 163, 162,
       161, 160, 159, 158, 157, 156, 155, 154, 153, 152, 151, 150, 149, 148, 147, 145, 146, 144,
       143, 142, 141, 140, 139, 138, 137, 136, 135, 134, 133, 132, 131, 130, 129, 128, 127, 126,
       125, 124, 123, 122, 121, 120, 119, 118, 116, 117, 115, 114, 113, 112, 111, 110, 109, 107,
       108, 106, 105, 104, 103, 102, 101, 100, 99, 98, 97, 96, 95, 94, 93, 92, 91, 90, 89, 88,
       87, 86, 85, 84, 83, 82, 81, 80, 79, 78, 77, 76, 75, 74, 73, 72, 71, 70, 69, 68, 67, 66,
       65, 64, 63, 62, 61, 60, 59, 58, 57, 56, 55, 54, 53, 52, 51, 50, 49, 48, 47, 46, 45, 44,
       43, 42, 41, 40, 39, 36, 38, 37, 35, 34, 33, 32, 31, 30, 28, 29, 27, 26, 25, 24, 22, 23,
       21, 20, 18, 19, 17, 16, 15, 14, 13, 11, 12, 10, 9, 8, 7, 6, 5, 4, 3, 2, 1, 0, 197, 196,
       195, 194, 193, 192, 191, 190, 189, 188, 187, 186, 185, 184, 183, 182, 181, 180, 179, 177,
       178, 176, 175, 174, 173, 172, 171, 170, 169, 168, 167, 166, 165, 164, 163, 162, 161, 160,
       159, 158, 157, 156, 155, 154, 153, 152, 151, 150, 149, 148, 147, 146, 145, 144, 143, 142,
       141, 140, 139, 138, 137, 136, 135, 134, 133, 132, 131, 130, 129, 128, 127, 126, 125, 124,
       123, 122, 121, 120, 119, 118, 117, 116, 115, 114, 113, 112, 111, 110, 109, 108, 106, 107,
       105, 104, 103, 102, 101, 100, 99, 98, 97, 96, 95, 94, 93, 92, 91, 90, 89, 88, 87, 85, 86,
       84, 83, 82, 81, 80, 79, 78, 77, 76, 75, 74, 73, 72, 71, 70, 69, 68, 67, 66, 65, 64, 63,
       62, 61, 60, 59, 58, 57, 56, 55, 54, 53, 52, 51, 50, 49, 48, 47, 46, 45, 44, 43, 42, 41,
       40, 38, 39, 37, 36, 35, 34, 33, 32, 31, 30, 29, 28, 27, 26, 24, 25, 23, 22, 21, 20, 19,
       18, 17, 16, 15, 14, 13, 12, 11, 10, 9, 8, 7, 6, 5, 4, 3, 2, 1, 0, 197, 196, 195, 194,
       192, 193, 191, 190, 189, 188, 187, 186, 185, 184, 183, 182, 181, 180, 179, 178, 177, 176,
       175, 174, 173, 172, 171, 170, 169, 168, 167, 166, 165, 164, 163, 162, 161, 160, 159, 158,
       157, 156, 155, 154, 153, 152, 151, 150, 149, 148, 147, 146, 145, 144, 143, 142, 141, 140,
       139, 138, 137, 136, 135, 134, 133, 132, 131, 130, 129, 128, 127, 126, 125, 124, 123, 122,
       121, 120, 119, 118, 117, 116, 115, 114, 113, 112, 111, 110, 109, 108, 107, 106, 105, 104,
       103, 102, 101, 100, 99, 98, 97, 96, 95, 94, 92, 93, 91, 90, 89, 88, 87, 86, 84, 85, 83,
       82, 81, 80, 79, 78, 77, 76, 75, 74, 73, 72, 71, 70, 69, 68, 67, 66, 65, 64, 63, 61, 62,
       60, 59, 58, 57, 56, 55, 54, 53, 52, 51, 50, 49, 48, 47, 46, 45, 44, 43, 42, 41, 40, 39,
       38, 37, 36, 35, 34, 33, 32, 31, 30, 29, 28, 27, 26, 25, 23, 24, 22, 21, 20, 19, 18, 17,
       16, 15, 14, 13, 12, 11, 10, 9, 8, 7, 6, 5, 4, 3, 2, 1, 0 >>

\* blocks as rle_one hands them to bwt
RefineBlocks == (SeqsUpTo(Alphabet, MaxLen) \ { << >> }) \cup Thrice

RefInit ==
    /\ overflow_checks \in BOOLEAN
    /\ output = OutputStreamNew
    /\ calls = << >>
    /\ closed = FALSE
    /\ input \in RefineBlocks
    /\ level = 1
    /\ reader = [data |-> << >>, cap |-> 1, errs_after |-> NoErr]
    /\ raw = << >>
    /\ rle = << >>
    /\ blocks = << >>
    /\ enc = << >>
    /\ pc = "mtf"

\* mtf_and_rle, num_tables and the initial tables
start_of(mtf) ==
    [mtf |-> mtf,
     num_tables |-> num_tables_of(mtf.num_syms),
     r |-> refine_init(init_tables([tables |-> << >>, freq_remaining |-> Len(mtf.output),
                                    sym_left |-> 0, ok |-> TRUE],
                                   mtf.freqs, mtf.num_syms, num_tables_of(mtf.num_syms)),
                       mtf.num_syms),
     it |-> 0]

started(mtf) ==
    IF mtf.ok THEN start_of(mtf)
    ELSE [mtf |-> mtf, num_tables |-> 0, r |-> [ok |-> FALSE], it |-> 0]

\* mtf_and_rle(&bwt.bwt, &bwt.has_byte)
mtf_of(b) ==
    IF b.ok THEN mtf_and_rle(b.bwt, b.has_byte)
    ELSE [output |-> << >>, num_syms |-> 0, freqs |-> Zeros(258), ok |-> FALSE]

RefStart ==
    /\ pc = "mtf"
    /\ enc' = started(mtf_of(bwt(input)))
    /\ pc' = IF enc'.mtf.ok /\ enc'.r.ok THEN "refine" ELSE "panicked"
    /\ UNCHANGED << out_vars, input, level, reader, raw, rle, blocks >>

\* the winners of the segments of one pass over the tables as the pass has them
winners(r, inp) == segments([r EXCEPT !.selectors = << >>], inp, 0, TRUE).selectors

\* what one pass found and did
pass_record(it, entry, zeroed, inp) ==
    [it |-> it,
     table_freqs |-> entry.table_freqs,
     tables |-> entry.tables,
     winners |-> winners(zeroed, inp)]

\* one pass of for it in 0..NUM_REFINEMENTS
pass_of(e, zeroed) ==
    rebuild_tables(segments(zeroed, e.mtf.output, 0, e.it = NUM_REFINEMENTS - 1), e.mtf.num_syms)

zeroed_of(e) == [e.r EXCEPT !.tables = zero_out(@, e.mtf.num_syms, e.it)]

RefPass ==
    /\ pc = "refine"
    /\ enc.it < NUM_REFINEMENTS
    /\ enc' = [enc EXCEPT !.r = pass_of(enc, zeroed_of(enc)), !.it = @ + 1]
    /\ blocks' = Append(blocks, pass_record(enc.it, enc.r, zeroed_of(enc), enc.mtf.output))
    /\ pc' = IF ~enc'.r.ok THEN "panicked"
             ELSE IF enc'.it = NUM_REFINEMENTS THEN "write" ELSE "refine"
    /\ UNCHANGED << out_vars, input, level, reader, raw, rle >>

\* the coded block written
RefWrite ==
    /\ pc = "write"
    /\ output' = write_coded(output, enc.r, enc.mtf.output, enc.num_tables)
    /\ pc' = IF output'.panicked THEN "panicked" ELSE "done"
    /\ UNCHANGED << overflow_checks, calls, closed, enc_vars_but_pc >>

RefNext == RefStart \/ RefPass \/ RefWrite

SpecRefine == RefInit /\ [][RefNext]_vars

\* the result of the passes is that of encode's loop
RefineIsEncode ==
    pc = "done" =>
        /\ enc.r = huffman_tables(enc.mtf)
        /\ output = huffman_encode(OutputStreamNew, enc.mtf)


\* the passes made so far, as RefPass recorded them
Passes == 1..Len(blocks)

\* C22: at the start of each of the four refinement passes every per-table
\* frequency accumulator is zero, so that the tables rebuilt at the end of a
\* pass are built only from the segments of that pass
C22_AccumulatorsStartAtZero ==
    \A k \in Passes :
        \A t \in 1..Len(blocks[k].table_freqs) :
            \A s \in 1..Len(blocks[k].table_freqs[t]) : blocks[k].table_freqs[t][s] = 0

\* the accumulators of the first pass are zero
C22_FirstPassStartsAtZero ==
    \A k \in Passes :
        blocks[k].it = 0 =>
            \A t \in 1..Len(blocks[k].table_freqs) :
                \A s \in 1..Len(blocks[k].table_freqs[t]) : blocks[k].table_freqs[t][s] = 0

\* from the second pass on a pass starts with the counts of all the passes before it
C22_AccumulatorsCarryOver ==
    \A k \in Passes :
        \A t \in 1..Len(blocks[k].table_freqs) :
            \A s \in 1..Len(blocks[k].table_freqs[t]) :
                k > 1 => blocks[k].table_freqs[t][s] >= blocks[k - 1].table_freqs[t][s]

\* the number of segments of an input of len symbols
num_segments(len) == (len + SegmentWidth - 1) \div SegmentWidth

\* the last index of segment j, from 0
segment_end(len, j) == Min((j + 1) * SegmentWidth, len) - 1

\* table t is as cheap as any table for segment j under the tables given
cheapest(tables, inp, j, t) ==
    \A u \in 1..Len(tables) :
        segment_cost(tables[t + 1], inp, j * SegmentWidth, segment_end(Len(inp), j))
            <= segment_cost(tables[u], inp, j * SegmentWidth, segment_end(Len(inp), j))

\* C23: in every pass each segment goes to a table whose sum of code lengths
\* over the segment, taken from the tables built by the preceding pass (the
\* initial tables in the first pass), is minimal; the selectors are the
\* winners of the fourth pass, one for every segment, each below the number
\* of tables
C23_WinnersAreCheapest ==
    /\ \A k \in Passes :
           /\ Len(blocks[k].winners) = num_segments(Len(enc.mtf.output))
           /\ \A j \in 1..Len(blocks[k].winners) :
                  cheapest(blocks[k].tables, enc.mtf.output, j - 1, blocks[k].winners[j])
    /\ pc \in { "write", "done" } =>
           /\ enc.r.selectors = blocks[NUM_REFINEMENTS].winners
           /\ \A j \in 1..Len(enc.r.selectors) : enc.r.selectors[j] < enc.num_tables

\* the part on the selector list alone
C23_SelectorsAreFourthPassWinners ==
    pc \in { "write", "done" } =>
        /\ Len(enc.r.selectors) = num_segments(Len(enc.mtf.output))
        /\ enc.r.selectors = blocks[NUM_REFINEMENTS].winners
        /\ \A j \in 1..Len(enc.r.selectors) : enc.r.selectors[j] < enc.num_tables

\* the winners of the first pass are cheapest under the initial tables
C23_FirstPassWinnersAreCheapest ==
    \A k \in Passes :
        blocks[k].it = 0 =>
            \A j \in 1..Len(blocks[k].winners) :
                cheapest(blocks[k].tables, enc.mtf.output, j - 1, blocks[k].winners[j])

\* from the second pass on the costs are taken from tables of zeroes and
\* table 0 wins every segment
C23_LaterPassesChooseTableZero ==
    \A k \in Passes :
        blocks[k].it # 0 => \A j \in 1..Len(blocks[k].winners) : blocks[k].winners[j] = 0

\* a first pass in which a table other than 0 won a segment
C23_FirstPassWitness ==
    /\ Len(blocks) >= 1
    /\ \E j \in 1..Len(blocks[1].winners) : blocks[1].winners[j] # 0


(***************************************************************************)
(* The initial tables of huffman::encode, the span search one symbol at a  *)
(* time.  `input` is what bwt made of a block; `enc` holds the Mtf, the    *)
(* tables pushed so far and the locals of the loop; `blocks` records, for  *)
(* every table, its span and the indices of mtf.freqs that were read.      *)
(***************************************************************************)
\* one-byte blocks, which bwt returns as they are, and the two long transforms
TableInputs == { << b >> : b \in Alphabet } \cup { skewed_all_bytes_bwt, skewed_198_bytes_bwt }

TabInit ==
    /\ overflow_checks \in BOOLEAN
    /\ output = OutputStreamNew
    /\ calls = << >>
    /\ closed = FALSE
    /\ input \in TableInputs
    /\ level = 1
    /\ reader = [data |-> << >>, cap |-> 1, errs_after |-> NoErr]
    /\ raw = << >>
    /\ rle = << >>
    /\ blocks = << >>
    /\ enc = << >>
    /\ pc = "mtf"

\* the locals of encode before for cur_table in 0..num_tables
tab_start(mtf) ==
    [mtf |-> mtf,
     num_tables |-> num_tables_of(mtf.num_syms),
     tables |-> << >>,
     freq_remaining |-> Len(mtf.output),
     sym_left |-> 0,
     cur_table |-> 0,
     freq_target |-> 0,
     freq_acc |-> 0,
     sym_right |-> 0,
     reads |-> { }]

TabStart ==
    /\ pc = "mtf"
    /\ enc' = tab_start(mtf_and_rle(input, has_bytes(input)))
    /\ pc' = IF enc'.mtf.ok /\ enc'.num_tables # 0 THEN "table" ELSE "panicked"
    /\ UNCHANGED << out_vars, input, level, reader, raw, rle, blocks >>

\* freq_target = freq_remaining / tables_remaining; freq_acc = 0; sym_right = sym_left
TabBegin ==
    /\ pc = "table"
    /\ enc' = [enc EXCEPT !.freq_target = enc.freq_remaining \div (enc.num_tables - enc.cur_table),
                          !.freq_acc = 0,
                          !.sym_right = enc.sym_left,
                          !.reads = { }]
    /\ pc' = "scan"
    /\ UNCHANGED << out_vars, input, level, reader, raw, rle, blocks >>

\* one turn of loop { freq_acc += mtf.freqs[sym_right]; if .. { break; } sym_right += 1; }
\* mtf.freqs is a [usize; 258]
TabScan ==
    /\ pc = "scan"
    /\ IF enc.sym_right >= Len(enc.mtf.freqs)
       THEN /\ pc' = "panicked"
            /\ enc' = [enc EXCEPT !.reads = @ \cup { enc.sym_right }]
       ELSE IF enc.freq_acc + At(enc.mtf.freqs, enc.sym_right) >= enc.freq_target
               \/ enc.sym_right + 1 = enc.mtf.num_syms
       THEN /\ pc' = "fill"
            /\ enc' = [enc EXCEPT !.freq_acc = @ + At(enc.mtf.freqs, enc.sym_right),
                                  !.reads = @ \cup { enc.sym_right }]
       ELSE /\ pc' = "scan"
            /\ enc' = [enc EXCEPT !.freq_acc = @ + At(enc.mtf.freqs, enc.sym_right),
                                  !.reads = @ \cup { enc.sym_right },
                                  !.sym_right = @ + 1]
    /\ UNCHANGED << out_vars, input, level, reader, raw, rle, blocks >>

\* the locals after the step back on the odd inner tables
tab_back(e) ==
    init_backtrack(e.mtf.freqs, [sym_right |-> e.sym_right, freq_acc |-> e.freq_acc, ok |-> TRUE],
                   e.sym_left, e.cur_table, e.num_tables)

\* the table pushed, sym_left = sym_right + 1, freq_remaining -= freq_acc
tab_fill(e, sc) ==
    [e EXCEPT !.tables = Append(@, Vec([s \in 1..e.mtf.num_syms |->
                                           IF s - 1 >= e.sym_left /\ s - 1 <= sc.sym_right
                                           THEN INIT_LEN_HIGH ELSE INIT_LEN_LOW])),
              !.sym_left = sc.sym_right + 1,
              !.freq_remaining = @ - sc.freq_acc,
              !.freq_acc = sc.freq_acc,
              !.sym_right = sc.sym_right,
              !.cur_table = @ + 1]

TabFill ==
    /\ pc = "fill"
    /\ enc' = tab_fill(enc, tab_back(enc))
    /\ blocks' = Append(blocks, [left |-> enc.sym_left, right |-> enc'.sym_right,
                                 reads |-> enc.reads])
    /\ pc' = IF enc'.cur_table = enc.num_tables THEN "tables_done" ELSE "table"
    /\ UNCHANGED << out_vars, input, level, reader, raw, rle >>

TabNext == TabStart \/ TabBegin \/ TabScan \/ TabFill

SpecTables == TabInit /\ [][TabNext]_vars

\* the two long inputs are what bwt makes of the two long blocks
SkewedAreTransforms ==
    /\ pc = "mtf" /\ input = skewed_all_bytes_bwt =>
           bwt(skewed_all_bytes).bwt = input /\ bwt(skewed_all_bytes).ptr = 0
    /\ pc = "mtf" /\ input = skewed_198_bytes_bwt =>
           bwt(skewed_198_bytes).bwt = input /\ bwt(skewed_198_bytes).ptr = 0

\* the tables are those of init_tables
TablesAreInitTables ==
    pc = "tables_done" /\ enc.num_tables = 2 =>
        enc.tables = init_tables([tables |-> << >>, freq_remaining |-> Len(enc.mtf.output),
                                  sym_left |-> 0, ok |-> TRUE],
                                 enc.mtf.freqs, enc.mtf.num_syms, enc.num_tables).tables

\* C26: the initial tables cover num_tables non-empty, pairwise disjoint,
\* contiguous spans inside [0, num_syms); the span search reads no frequency
\* at an index >= num_syms; each table is 15 on its span and 0 elsewhere
C26_SpansInsideSymbols ==
    /\ pc # "panicked"
    /\ pc \in { "scan", "fill" } => \A k \in enc.reads : k < enc.mtf.num_syms
    /\ \A t \in 1..Len(blocks) :
           /\ \A k \in blocks[t].reads : k < enc.mtf.num_syms
           /\ 0 <= blocks[t].left /\ blocks[t].left <= blocks[t].right
           /\ blocks[t].right < enc.mtf.num_syms
           /\ blocks[t].left = (IF t = 1 THEN 0 ELSE blocks[t - 1].right + 1)
           /\ \A s \in 1..enc.mtf.num_syms :
                  enc.tables[t][s] = (IF blocks[t].left <= s - 1 /\ s - 1 <= blocks[t].right
                                      THEN INIT_LEN_HIGH ELSE INIT_LEN_LOW)
    /\ pc = "tables_done" => Len(blocks) = enc.num_tables

\* with two tables the claim holds
C26_TwoTablesInside ==
    pc # "mtf" /\ enc.num_tables = 2 => C26_SpansInsideSymbols

\* each table is 15 on the span found for it and 0 elsewhere, the spans
\* following one another from symbol 0
C26_TablesFollowSpans ==
    \A t \in 1..Len(blocks) :
        /\ blocks[t].left = (IF t = 1 THEN 0 ELSE blocks[t - 1].right + 1)
        /\ \A s \in 1..enc.mtf.num_syms :
               enc.tables[t][s] = (IF blocks[t].left <= s - 1 /\ s - 1 <= blocks[t].right
                                   THEN INIT_LEN_HIGH ELSE INIT_LEN_LOW)

\* a third table whose span lies beyond the last symbol
C26_SpanBeyondSymbols ==
    /\ pc = "tables_done"
    /\ Len(blocks) = 3
    /\ blocks[3].left >= enc.mtf.num_syms
    /\ \A s \in 1..enc.mtf.num_syms : enc.tables[3][s] = INIT_LEN_LOW

\* the search for the third span indexes mtf.freqs out of bounds
C26_ReadBeyondFreqs ==
    /\ pc = "panicked"
    /\ enc.mtf.ok
    /\ enc.sym_right = 258


(***************************************************************************)
(* build_table_from_freqs, an attempt at a time: `enc` holds scaling and   *)
(* the lengths of the tree last built.                                     *)
(***************************************************************************)
ScaleInit ==
    /\ overflow_checks \in BOOLEAN
    /\ output = OutputStreamNew
    /\ calls = << >>
    /\ closed = FALSE
    /\ input \in FreqVectors
    /\ level = 1
    /\ reader = [data |-> << >>, cap |-> 1, errs_after |-> NoErr]
    /\ raw = << >>
    /\ rle = << >>
    /\ blocks = << >>
    /\ enc = [scaling |-> 1, lengths |-> << >>, max_len |-> 0, attempts |-> 0]
    /\ pc = "attempt"

\* scaling <<= 1 left as it is: a variant that retries with the same frequencies
next_scaling_same(scaling) == scaling

\* scaling <<= 1
next_scaling(scaling) == scaling * 2

\* let (lengths, max_len) = tree.coding_lengths()
with_max_len(e, lengths) ==
    [e EXCEPT !.lengths = lengths, !.max_len = table_max_len(lengths, Len(lengths)),
              !.attempts = @ + 1]

\* the tree, the queue, the ties and tree.coding_lengths() of one attempt
ScaleAttempt ==
    /\ pc = "attempt"
    /\ enc' = with_max_len(enc, build_table_unscaled(Len(input), input, enc.scaling))
    /\ pc' = "built"
    /\ UNCHANGED << out_vars, input, level, reader, raw, rle, blocks >>

\* if max_len <= CODEWORD_MAX_LEN { break lengths; }
ScaleExit ==
    /\ pc = "built"
    /\ enc.max_len <= CODEWORD_MAX_LEN
    /\ blocks' = << enc.lengths >>
    /\ pc' = "done"
    /\ UNCHANGED << out_vars, input, level, reader, raw, rle, enc >>

\* scaling <<= 1 and the next turn of the loop
ScaleRetry ==
    /\ pc = "built"
    /\ enc.max_len > CODEWORD_MAX_LEN
    /\ enc' = [enc EXCEPT !.scaling = next_scaling(@)]
    /\ pc' = "attempt"
    /\ UNCHANGED << out_vars, input, level, reader, raw, rle, blocks >>

ScaleNext == ScaleAttempt \/ ScaleExit \/ ScaleRetry

SpecScale == ScaleInit /\ [][ScaleNext]_vars

\* WF_vars(ScaleAttempt) written out: an attempt can be made exactly when
\* pc = "attempt", it is the one step there is from such a state, and it changes pc
FairScaleAttempt == []<>(pc # "attempt")

\* the loop is not held up: a step that can be taken is taken
SpecScaleFair == SpecScale /\ WF_vars(ScaleExit \/ ScaleRetry) /\ FairScaleAttempt

\* the lengths the loop leaves with are those of build_table_from_freqs
ScaleIsBuildTable ==
    pc = "done" => blocks[1] = build_table_from_freqs(Len(input), input)

\* a length is the greatest of the lengths
IsMaxLen(lengths, m) ==
    /\ \A s \in 1..Len(lengths) : lengths[s] <= m
    /\ \E s \in 1..Len(lengths) : lengths[s] = m

\* freq / scaling for every symbol
quantised(freqs, scaling) == Vec([s \in 1..Len(freqs) |-> freqs[s] \div scaling])

\* an attempt sees the frequencies only through freq / scaling, queued plus one
ScaleUsesQuantised ==
    pc = "built" => enc.lengths = build_table_unscaled(Len(input), quantised(input, enc.scaling), 1)

\* C24: build_table_from_freqs terminates: a tree with a leaf deeper than 17
\* is followed by an attempt with scaling doubled, and in the end the loop is
\* left with lengths of at most 17
C24_BuildTableTerminates ==
    /\ [][pc = "built" /\ (\E s \in 1..Len(enc.lengths) : enc.lengths[s] > CODEWORD_MAX_LEN)
              => pc' = "attempt" /\ enc'.scaling = 2 * enc.scaling]_vars
    /\ <>(pc = "done" /\ \A s \in 1..Len(blocks[1]) : blocks[1][s] <= CODEWORD_MAX_LEN)

\* a table that took more than one attempt
C24_Witness ==
    /\ pc = "done"
    /\ enc.attempts >= 3
    /\ enc.scaling = Pow2(enc.attempts - 1)
    /\ IsMaxLen(blocks[1], enc.max_len)
    /\ enc.max_len <= CODEWORD_MAX_LEN


(***************************************************************************)
(* A FrequencyQueue under calls of insert and extract in any order: `enc`  *)
(* is the heap, `rle` the item the last extract returned.                  *)
(***************************************************************************)
\* Priority(sum_frequency, max_dist) for the items inserted
Priorities == (1..3) \X (0..1)

\* the ids of the items inserted
QueueSyms == 1..2

QueueInit ==
    /\ overflow_checks \in BOOLEAN
    /\ output = OutputStreamNew
    /\ calls = << >>
    /\ closed = FALSE
    /\ input = << >>
    /\ level = 1
    /\ reader = [data |-> << >>, cap |-> 1, errs_after |-> NoErr]
    /\ raw = << >>
    /\ rle = << >>
    /\ blocks = << >>
    /\ enc = << >>
    /\ pc = "queue"

\* queue.insert(sym, priority); the heap has room for num_syms items
QueueInsert ==
    /\ pc = "queue"
    /\ Len(enc) < MaxSyms - 1
    /\ \E sym \in QueueSyms, p \in Priorities : enc' = insert(enc, sym, p)
    /\ UNCHANGED << out_vars, input, level, reader, raw, rle, blocks, pc >>

\* queue.extract(); it panics on an empty heap
QueueExtract ==
    /\ pc = "queue"
    /\ IF extract(enc).ok
       THEN enc' = extract(enc).heap /\ rle' = << extract(enc).item >> /\ pc' = pc
       ELSE enc' = enc /\ rle' = rle /\ pc' = "panicked"
    /\ UNCHANGED << out_vars, input, level, reader, raw, blocks >>

QueueNext == QueueInsert \/ QueueExtract

SpecQueue == QueueInit /\ [][QueueNext]_vars

\* no item is below its parent in the order of (frequency, depth)
IsMinHeap(h) == \A i \in 2..Len(h) : ~priority_lt(h[i].priority, h[i \div 2].priority)

\* the number of places of h that hold x
CountOf(h, x) == Cardinality({ i \in 1..Len(h) : h[i] = x })

\* h holds the items of g and x besides
HoldsBesides(h, g, x) ==
    /\ Len(h) = Len(g) + 1
    /\ \A i \in 1..Len(h) : CountOf(h, h[i]) = CountOf(g, h[i]) + (IF h[i] = x THEN 1 ELSE 0)

\* C25: after any sequence of insert and extract calls the queue is a
\* min-heap on (frequency, depth), an insert adds its item, and an extract
\* removes and returns an item of least priority among those in the queue
C25_QueueIsMinHeap ==
    /\ [](pc = "queue" => IsMinHeap(enc))
    /\ [][Len(enc') > Len(enc) =>
              \E sym \in QueueSyms, p \in Priorities :
                  HoldsBesides(enc', enc, [sym |-> sym, priority |-> p])]_vars
    /\ [][Len(enc') < Len(enc) =>
              /\ HoldsBesides(enc, enc', rle'[1])
              /\ \A i \in 1..Len(enc) : ~priority_lt(enc[i].priority, rle'[1].priority)]_vars

\* an extract from a heap of at least four items of several priorities, in
\* which the item put in the root's place went down to the right
C25_Witness ==
    /\ pc = "queue"
    /\ rle # << >>
    /\ Len(enc) >= 3
    /\ priority_lt(rle[1].priority, enc[1].priority)
    /\ priority_lt(enc[1].priority, enc[3].priority)
    /\ priority_lt(enc[3].priority, enc[2].priority)


(***************************************************************************)
(* The writing of the selector list, a selector at a time: `enc` holds the *)
(* number of tables, the selectors, selectors_mtf and the index k of the   *)
(* next selector.                                                          *)
(***************************************************************************)
\* the numbers of tables encode can choose
TableCounts == 2..6

\* selectors_mtf as it starts: 0, 1, .., num_tables - 1
selectors_mtf_new(num_tables) == Vec([i \in 1..num_tables |-> i - 1])

SelInit ==
    /\ overflow_checks \in BOOLEAN
    /\ output = OutputStreamNew
    /\ calls = << >>
    /\ closed = FALSE
    /\ input = << >>
    /\ level = 1
    /\ reader = [data |-> << >>, cap |-> 1, errs_after |-> NoErr]
    /\ raw = << >>
    /\ rle = << >>
    /\ blocks = << >>
    /\ \E t \in TableCounts :
           \E sels \in SeqsUpTo(0..(t - 1), MaxLen - 1) :
               enc = [num_tables |-> t, selectors |-> sels,
                      selectors_mtf |-> selectors_mtf_new(t), k |-> 1]
    /\ pc = "selectors"

\* loop { stack_sel = selectors_mtf[idx]; selectors_mtf[idx] = bump; .. }:
\* the list and idx when the selector is found
RECURSIVE sel_bump(_, _, _, _)
sel_bump(mtf, sel, bump, idx) ==
    IF idx >= Len(mtf) THEN [mtf |-> mtf, idx |-> idx, ok |-> FALSE]
    ELSE IF At(mtf, idx) = sel THEN [mtf |-> Put(mtf, idx, bump), idx |-> idx, ok |-> TRUE]
    ELSE sel_bump(Put(mtf, idx, bump), sel, At(mtf, idx), idx + 1)

\* the code written and selectors_mtf[0] = *sel
sel_found(os, b, sel) ==
    IF b.ok
    THEN [os |-> write_bits(os, idx_codes(b.idx), b.idx + 1), mtf |-> Put(b.mtf, 0, sel)]
    ELSE [os |-> [os EXCEPT !.panicked = TRUE], mtf |-> b.mtf]

\* the body of for sel in selectors.iter()
sel_iter(os, mtf, sel) ==
    IF At(mtf, 0) = sel THEN [os |-> write_bits(os, 0, 1), mtf |-> mtf]
    ELSE sel_found(os, sel_bump(mtf, sel, At(mtf, 0), 1), sel)

SelWrite ==
    /\ pc = "selectors"
    /\ enc.k <= Len(enc.selectors)
    /\ output' = sel_iter(output, enc.selectors_mtf, enc.selectors[enc.k]).os
    /\ enc' = [enc EXCEPT !.selectors_mtf = sel_iter(output, @, enc.selectors[enc.k]).mtf,
                          !.k = @ + 1]
    /\ pc' = IF output'.panicked THEN "panicked" ELSE pc
    /\ UNCHANGED << overflow_checks, calls, closed, input, level, reader, raw, rle, blocks >>

\* the list is exhausted
SelEnd ==
    /\ pc = "selectors"
    /\ enc.k > Len(enc.selectors)
    /\ pc' = "done"
    /\ UNCHANGED << out_vars, enc_vars_but_pc >>

SelNext == SelWrite \/ SelEnd

SpecSel == SelInit /\ [][SelNext]_vars

\* the selectors written so far
Written == SubSeq(enc.selectors, 1, enc.k - 1)

\* the writing is that of write_selectors
SelIsWriteSelectors ==
    output = write_selectors(OutputStreamNew, selectors_mtf_new(enc.num_tables), Written, 1)

\* the place of sel in the list l, from 0
PlaceOf(l, sel) == (CHOOSE j \in 1..Len(l) : l[j] = sel) - 1

\* r one bits and a zero bit
UnaryCode(r) == Vec([j \in 1..(r + 1) |-> IF j <= r THEN 1 ELSE 0])

\* what the decoder reads from the bits written so far
ReadSelectors ==
    DecSelectors(HeldBits(output), enc.num_tables,
                 [pos |-> 0, ok |-> TRUE, order |-> selectors_mtf_new(enc.num_tables),
                  sels |-> << >>],
                 enc.k - 1)

\* C27: from the list 0..T-1, each selector at place r is written as r one
\* bits and a zero bit and moved to the front, the entries before it moving
\* up by one; decoding the unary codes over the same list gives the selectors
C27_SelectorsAreMtfCoded ==
    /\ [](/\ pc # "panicked"
          /\ ReadSelectors.ok
          /\ ReadSelectors.sels = Written
          /\ ReadSelectors.pos = Len(HeldBits(output))
          /\ ReadSelectors.order = enc.selectors_mtf)
    /\ [][enc'.k = enc.k + 1 =>
              LET r == PlaceOf(enc.selectors_mtf, enc.selectors[enc.k])
              IN  /\ HeldBits(output') = HeldBits(output) \o UnaryCode(r)
                  /\ enc'.selectors_mtf =
                         << enc.selectors[enc.k] >> \o SubSeq(enc.selectors_mtf, 1, r)
                             \o SubSeq(enc.selectors_mtf, r + 2, enc.num_tables)]_vars

\* a list written whose last selector stood at the end of a list of six that
\* earlier selectors had rearranged
C27_Witness ==
    /\ pc = "done"
    /\ enc.num_tables = 6
    /\ Len(enc.selectors) = MaxLen - 1
    /\ enc.selectors[1] # enc.selectors[2]
    /\ enc.selectors[1] # 0
    /\ PlaceOf(MoveToFront(enc.selectors_mtf, 0), enc.selectors[Len(enc.selectors)]) = 0
    /\ Len(HeldBits(output)) > 2 * Len(enc.selectors)
    /\ SubSeq(HeldBits(output), Len(HeldBits(output)) - 5, Len(HeldBits(output)))
           = << 1, 1, 1, 1, 1, 0 >>


(***************************************************************************)
(* write_sym_map for the has_byte of a block, after the bits of the block  *)
(* header or on a byte boundary: `enc` holds has_byte and the number of    *)
(* bits written before the map.                                            *)
(***************************************************************************)
\* byte values at the ends of sectors and between
SymBytes == { 0, 1, 15, 16, 17, 127, 255 }

SymBlocks == SeqsUpTo(SymBytes, 3) \cup { every_byte }

SymInit ==
    /\ overflow_checks \in BOOLEAN
    /\ output = OutputStreamNew
    /\ calls = << >>
    /\ closed = FALSE
    /\ input \in SymBlocks
    /\ level = 1
    /\ reader = [data |-> << >>, cap |-> 1, errs_after |-> NoErr]
    /\ raw = << >>
    /\ rle = << >>
    /\ blocks = << >>
    /\ enc = << >>
    /\ pc = "header"

\* the bit of the block header that says the block is not randomised
SymRandomised ==
    /\ pc = "header"
    /\ output' = write_bits(output, 0, 1)
    /\ pc' = "map"
    /\ UNCHANGED << overflow_checks, calls, closed, enc_vars_but_pc >>

\* write_sym_map(&mut output, &bwt_out.has_byte)
SymWrite ==
    /\ pc \in { "header", "map" }
    /\ enc' = [has_byte |-> has_bytes(input), pos |-> Len(HeldBits(output))]
    /\ output' = write_sym_map(output, has_bytes(input))
    /\ pc' = IF output'.panicked THEN "panicked" ELSE "done"
    /\ UNCHANGED << overflow_checks, calls, closed, input, level, reader, raw, rle, blocks >>

SymNext == SymRandomised \/ SymWrite

SpecSym == SymInit /\ [][SymNext]_vars

\* the bits of the map
MapBits == SubSeq(HeldBits(output), enc.pos + 1, Len(HeldBits(output)))

\* some byte of sector a is marked
SectorPresent(has_byte, a) == \E b \in 0..15 : has_byte[16 * a + b + 1]

\* the number of sectors before a that are present
PresentBefore(has_byte, a) == Cardinality({ c \in 0..(a - 1) : SectorPresent(has_byte, c) })

\* C28: write_sym_map writes 16 bits, the first for sector 0, bit a set
\* exactly when a byte of 16a..16a+15 is marked in has_byte, then 16 bits for
\* each sector present, in ascending order, bit b the mark of byte 16a+b; a
\* block that is not empty has a sector, and has_byte is recovered from the
\* bits written
C28_SymMapIsSectorBitmap ==
    /\ input # << >> => pc # "panicked"
    /\ pc = "done" =>
           /\ Len(MapBits) = 16 + 16 * PresentBefore(enc.has_byte, 16)
           /\ PresentBefore(enc.has_byte, 16) >= 1
           /\ \A a \in 0..15 :
                  /\ MapBits[a + 1] = (IF SectorPresent(enc.has_byte, a) THEN 1 ELSE 0)
                  /\ SectorPresent(enc.has_byte, a) =>
                         \A b \in 0..15 :
                             MapBits[16 + 16 * PresentBefore(enc.has_byte, a) + b + 1]
                                 = (IF enc.has_byte[16 * a + b + 1] THEN 1 ELSE 0)
           /\ SymMapBits(HeldBits(output), enc.pos) = Len(MapBits)
           /\ InUse(HeldBits(output), enc.pos) = { w \in 0..255 : enc.has_byte[w + 1] }
           /\ \A w \in 0..255 : enc.has_byte[w + 1] <=> (\E k \in 1..Len(input) : input[k] = w)

\* a map off the byte boundary with two sectors, the second with two bytes
C28_Witness ==
    /\ pc = "done"
    /\ enc.pos = 1
    /\ MapBits = << 1, 1, 0, 0, 0, 0, 0, 0, 0, 0, 0, 0, 0, 0, 0, 0,
                    0, 0, 0, 0, 0, 0, 0, 0, 0, 0, 0, 0, 0, 0, 0, 1,
                    1, 1, 0, 0, 0, 0, 0, 0, 0, 0, 0, 0, 0, 0, 0, 0 >>


\* the count byte last pushed is the number of copies of the run's byte that
\* follow its first four in raw and in what the reader still holds, up to 251
RunIsWhole(st) ==
    count_reps(st.raw \o st.reader.data, At(st.raw, st.i - st.buffer[Len(st.buffer)] - 1),
               st.i - st.buffer[Len(st.buffer)], 0).rep_count
        = st.buffer[Len(st.buffer)]

\* what margin_call returns in the iteration that starts from the locals st
margin_of(st) == margin_call(push(st, st.b))

\* C29: each time margin_call returns, raw holds at least 256 bytes from the
\* current position unless the end of the input was seen; the reads of
\* raw[i+1], raw[i+2], raw[i+3] and of the repeats stay inside raw, and a run
\* is not cut short while the reader still has data
C29_MarginCoversLookAhead ==
    [][pc = "loop" /\ ~rle.brk /\ rle.bound >= 2 =>
           /\ Len(margin_of(rle).st.raw) = margin_of(rle).st.n
           /\ margin_of(rle).st.n - rle.i >= Margin \/ margin_of(rle).st.seen_eof
           /\ margin_of(rle).st.seen_eof => margin_of(rle).st.reader.data = << >>
           /\ margin_of(rle).margin = Min(Margin, margin_of(rle).st.n - rle.i)
                  \/ margin_of(rle).margin = margin_of(rle).st.n - rle.i
           /\ margin_of(rle).margin >= 1
           /\ ~rle'.oob
           /\ rle'.i <= rle'.n /\ rle'.n = Len(rle'.raw)
           /\ rle'.floor # rle.floor => RunIsWhole(rle')]_vars

\* a run with the greatest count, read from a reader that hands out one byte
\* at a time and still holds data
C29_Witness ==
    /\ pc = "loop"
    /\ rle.floor = rle.i
    /\ rle.i > 0
    /\ rle.buffer[Len(rle.buffer)] = MaxRep
    /\ rle.reader.cap = 1
    /\ rle.reader.data # << >>
    /\ ~rle.seen_eof
    /\ rle.n - rle.i < Margin


(***************************************************************************)
(* encode under fair scheduling: the call is not held up at any of its     *)
(* steps.                                                                  *)
(***************************************************************************)
\* WF_vars of each step after the first, written out: the step at pc = p is
\* the one step there is from such a state, and it changes pc
FairEncodeSteps ==
    /\ []<>(pc # "rle_one")
    /\ []<>(pc # "write_block_header")
    /\ []<>(pc # "write_sym_map")
    /\ []<>(pc # "huffman")
    /\ []<>(pc # "write_stream_footer")

SpecEncodeFair == SpecEncode /\ WF_vars(EncWriteStreamHeader) /\ FairEncodeSteps

\* what rle_one is called on: the remainder in hand and what the reader holds
Residual == raw \o reader.data

=============================================================================
